---- MODULE Spec2Model ----
(***************************************************************************)
(* Comment-tree reconstruction of limen (src/extension/background.ts, and  *)
(* the same code in the API route): the nested pass parseComments, the     *)
(* continuation resolver fetchMoreChildren, the flat-forest builder        *)
(* buildTreeFromFlat, the splicer insertIntoTree and the orchestrating     *)
(* part of fetchRedditPayload.                                             *)
(*                                                                         *)
(* Strings are sequences of one-character strings, so that the template    *)
(* literals `t1_${id}` and the regular expression /^t[0-9]_/ are computed  *)
(* character by character.  JavaScript objects live in a heap: a node is   *)
(* an address into heap, and a replies array is a sequence of addresses.   *)
(*                                                                         *)
(* The three limits of the program are scaled down so that the model can   *)
(* enumerate inputs that cross them: MAX_COMMENTS is 2000 in the source,   *)
(* MAX_COMMENT_DEPTH is 20 and MORE_CHILDREN_BATCH is 100.  Every formula  *)
(* below is stated in terms of the names, not of the numbers.              *)
(***************************************************************************)
EXTENDS Integers, Sequences, FiniteSets, TLC

MAX_COMMENTS == 3

MAX_COMMENT_DEPTH == 1

MORE_CHILDREN_BATCH == 2

(***************************************************************************)
(* Strings and JSON values                                                 *)
(***************************************************************************)

\* a JSON value whose typeof is not "string" (absent, null, number, ...)
NotAString == <<"<not-a-string>">>

IsString(v) == v # NotAString

\* a JSON value whose typeof is not "number"
NotANumber == 0 - 1

Whitespace == {" ", "\t", "\n"}

Digit == {"0", "1", "2", "3", "4", "5", "6", "7", "8", "9"}

RECURSIVE TrimStart(_)
TrimStart(s) ==
  IF s # <<>> /\ Head(s) \in Whitespace THEN TrimStart(Tail(s)) ELSE s

RECURSIVE TrimEnd(_)
TrimEnd(s) ==
  IF s # <<>> /\ s[Len(s)] \in Whitespace
  THEN TrimEnd(SubSeq(s, 1, Len(s) - 1))
  ELSE s

\* String.prototype.trim
Trim(s) == TrimEnd(TrimStart(s))

\* the template literal `t1_${id}`
T1(id) == <<"t", "1", "_">> \o id

\* the template literal `t3_${id}`
T3(id) == <<"t", "3", "_">> \o id

\* parentFullId.replace(/^t[0-9]_/, "")
StripTypeTag(s) ==
  IF Len(s) >= 3 /\ s[1] = "t" /\ s[2] \in Digit /\ s[3] = "_"
  THEN SubSeq(s, 4, Len(s))
  ELSE s

\* the default author of parseComments and buildTreeFromFlat
DeletedAuthor == <<"[", "d", "e", "l", "e", "t", "e", "d", "]">>

\* crypto.randomUUID(): the n-th identifier drawn; it differs from every
\* identifier of the input and from every other identifier drawn
RandomUUID(n) == <<"u", "u", "i", "d", "-">> \o [k \in 1..n |-> "x"]

\* a value that may or may not be an array (Array.isArray)
Arr(items) == [arr |-> TRUE, items |-> items]

NotAnArray == [arr |-> FALSE, items |-> <<>>]

\* raw entries of a listing or of a flat batch
NullThing ==
  [nul |-> TRUE, kind |-> "", hasData |-> FALSE, id |-> NotAString,
   author |-> NotAString, body |-> NotAString, score |-> NotANumber,
   created_utc |-> NotANumber, parent_id |-> NotAString,
   children |-> NotAnArray, replies |-> NotAnArray]

\* a comment entry (kind "t1") with a data record
Comment(id, body, parent, replies) ==
  [NullThing EXCEPT !.nul = FALSE, !.kind = "t1", !.hasData = TRUE,
                    !.id = id, !.author = <<"u">>, !.body = body,
                    !.score = 1, !.created_utc = 1,
                    !.parent_id = parent, !.replies = replies]

\* a "more available" placeholder entry (kind "more") with a data record
More(parent, children) ==
  [NullThing EXCEPT !.nul = FALSE, !.kind = "more", !.hasData = TRUE,
                    !.parent_id = parent, !.children = children]

\* an entry of another kind, or without a data record
Other(kind, hasData) ==
  [NullThing EXCEPT !.nul = FALSE, !.kind = kind, !.hasData = hasData]

(***************************************************************************)
(* The nested pass                                                         *)
(***************************************************************************)

\* a freshly constructed comment node (the object literal of parseComments
\* and of buildTreeFromFlat)
NewNode(id, data, body, replies) ==
  [id |-> id,
   author |-> IF IsString(data.author) THEN data.author ELSE DeletedAuthor,
   body |-> body,
   score |-> IF data.score # NotANumber THEN data.score ELSE 0,
   createdUtc |-> IF data.created_utc # NotANumber THEN data.created_utc ELSE 0,
   replies |-> replies]

\* the state threaded through the recursion: the shared counter, the shared
\* stub list, the heap, the number of UUIDs drawn, and whether a TypeError
\* is propagating
ParseState(heap0, uuid0) ==
  [count |-> 0, moreStubs |-> <<>>, heap |-> heap0, uuid |-> uuid0,
   threw |-> FALSE]

RECURSIVE parseComments(_, _, _)
RECURSIVE ParseLoop(_, _, _, _, _)

\* ParseLoop with unshift in place of push
ParseLoop_Unshift(items, i, depth, st, parsed) ==
  IF i > Len(items) \/ st.count >= MAX_COMMENTS
  THEN [nodes |-> parsed, st |-> st]
  ELSE
    LET node == items[i] IN
    IF node.nul
    THEN [nodes |-> <<>>, st |-> [st EXCEPT !.threw = TRUE]]
    ELSE IF node.kind = "more" /\ node.hasData
    THEN
      LET moreChildren == node.children
          parentId == IF IsString(node.parent_id) THEN node.parent_id ELSE <<>>
          st1 == IF moreChildren.arr /\ Len(moreChildren.items) > 0
                    /\ parentId # <<>>
                 THEN [st EXCEPT !.moreStubs =
                         Append(@, [parentId |-> parentId,
                                    childIds |-> moreChildren.items])]
                 ELSE st
      IN ParseLoop(items, i + 1, depth, st1, parsed)
    ELSE IF node.kind # "t1" \/ ~node.hasData
    THEN ParseLoop(items, i + 1, depth, st, parsed)
    ELSE
      LET body == IF IsString(node.body) THEN node.body ELSE <<>> IN
      IF Trim(body) = <<>>
      THEN ParseLoop(items, i + 1, depth, st, parsed)
      ELSE
        LET st1 == [st EXCEPT !.count = @ + 1]
            st2 == IF IsString(node.id) THEN st1
                   ELSE [st1 EXCEPT !.uuid = @ + 1]
            id == IF IsString(node.id) THEN node.id ELSE RandomUUID(st2.uuid)
            r == parseComments(node.replies, depth + 1, st2)
        IN IF r.st.threw
           THEN [nodes |-> <<>>, st |-> r.st]
           ELSE
             LET addr == Len(r.st.heap) + 1
                 st3 == [r.st EXCEPT !.heap =
                           Append(@, NewNode(id, node, body, r.nodes))]
             IN ParseLoop(items, i + 1, depth, st3, <<addr>> \o parsed)

\* ParseLoop without the test of the count at the head of the loop body
ParseLoop_NoBreak(items, i, depth, st, parsed) ==
  IF i > Len(items)
  THEN [nodes |-> parsed, st |-> st]
  ELSE
    LET node == items[i] IN
    IF node.nul
    THEN [nodes |-> <<>>, st |-> [st EXCEPT !.threw = TRUE]]
    ELSE IF node.kind = "more" /\ node.hasData
    THEN
      LET moreChildren == node.children
          parentId == IF IsString(node.parent_id) THEN node.parent_id ELSE <<>>
          st1 == IF moreChildren.arr /\ Len(moreChildren.items) > 0
                    /\ parentId # <<>>
                 THEN [st EXCEPT !.moreStubs =
                         Append(@, [parentId |-> parentId,
                                    childIds |-> moreChildren.items])]
                 ELSE st
      IN ParseLoop(items, i + 1, depth, st1, parsed)
    ELSE IF node.kind # "t1" \/ ~node.hasData
    THEN ParseLoop(items, i + 1, depth, st, parsed)
    ELSE
      LET body == IF IsString(node.body) THEN node.body ELSE <<>> IN
      IF Trim(body) = <<>>
      THEN ParseLoop(items, i + 1, depth, st, parsed)
      ELSE
        LET st1 == [st EXCEPT !.count = @ + 1]
            st2 == IF IsString(node.id) THEN st1
                   ELSE [st1 EXCEPT !.uuid = @ + 1]
            id == IF IsString(node.id) THEN node.id ELSE RandomUUID(st2.uuid)
            r == parseComments(node.replies, depth + 1, st2)
        IN IF r.st.threw
           THEN [nodes |-> <<>>, st |-> r.st]
           ELSE
             LET addr == Len(r.st.heap) + 1
                 st3 == [r.st EXCEPT !.heap =
                           Append(@, NewNode(id, node, body, r.nodes))]
             IN ParseLoop(items, i + 1, depth, st3, Append(parsed, addr))

\* ParseLoop without the test of the placeholder's parent reference
ParseLoop_NoParentTest(items, i, depth, st, parsed) ==
  IF i > Len(items) \/ st.count >= MAX_COMMENTS
  THEN [nodes |-> parsed, st |-> st]
  ELSE
    LET node == items[i] IN
    IF node.nul
    THEN [nodes |-> <<>>, st |-> [st EXCEPT !.threw = TRUE]]
    ELSE IF node.kind = "more" /\ node.hasData
    THEN
      LET moreChildren == node.children
          parentId == IF IsString(node.parent_id) THEN node.parent_id ELSE <<>>
          st1 == IF moreChildren.arr /\ Len(moreChildren.items) > 0
                 THEN [st EXCEPT !.moreStubs =
                         Append(@, [parentId |-> parentId,
                                    childIds |-> moreChildren.items])]
                 ELSE st
      IN ParseLoop(items, i + 1, depth, st1, parsed)
    ELSE IF node.kind # "t1" \/ ~node.hasData
    THEN ParseLoop(items, i + 1, depth, st, parsed)
    ELSE
      LET body == IF IsString(node.body) THEN node.body ELSE <<>> IN
      IF Trim(body) = <<>>
      THEN ParseLoop(items, i + 1, depth, st, parsed)
      ELSE
        LET st1 == [st EXCEPT !.count = @ + 1]
            st2 == IF IsString(node.id) THEN st1
                   ELSE [st1 EXCEPT !.uuid = @ + 1]
            id == IF IsString(node.id) THEN node.id ELSE RandomUUID(st2.uuid)
            r == parseComments(node.replies, depth + 1, st2)
        IN IF r.st.threw
           THEN [nodes |-> <<>>, st |-> r.st]
           ELSE
             LET addr == Len(r.st.heap) + 1
                 st3 == [r.st EXCEPT !.heap =
                           Append(@, NewNode(id, node, body, r.nodes))]
             IN ParseLoop(items, i + 1, depth, st3, Append(parsed, addr))

\* the for loop of parseComments, from entry i on
ParseLoop(items, i, depth, st, parsed) ==
  IF i > Len(items) \/ st.count >= MAX_COMMENTS
  THEN [nodes |-> parsed, st |-> st]
  ELSE
    LET node == items[i] IN
    IF node.nul
    THEN [nodes |-> <<>>, st |-> [st EXCEPT !.threw = TRUE]]
    ELSE IF node.kind = "more" /\ node.hasData
    THEN
      LET moreChildren == node.children
          parentId == IF IsString(node.parent_id) THEN node.parent_id ELSE <<>>
          st1 == IF moreChildren.arr /\ Len(moreChildren.items) > 0
                    /\ parentId # <<>>
                 THEN [st EXCEPT !.moreStubs =
                         Append(@, [parentId |-> parentId,
                                    childIds |-> moreChildren.items])]
                 ELSE st
      IN ParseLoop(items, i + 1, depth, st1, parsed)
    ELSE IF node.kind # "t1" \/ ~node.hasData
    THEN ParseLoop(items, i + 1, depth, st, parsed)
    ELSE
      LET body == IF IsString(node.body) THEN node.body ELSE <<>> IN
      IF Trim(body) = <<>>
      THEN ParseLoop(items, i + 1, depth, st, parsed)
      ELSE
        LET st1 == [st EXCEPT !.count = @ + 1]
            st2 == IF IsString(node.id) THEN st1
                   ELSE [st1 EXCEPT !.uuid = @ + 1]
            id == IF IsString(node.id) THEN node.id ELSE RandomUUID(st2.uuid)
            r == parseComments(node.replies, depth + 1, st2)
        IN IF r.st.threw
           THEN [nodes |-> <<>>, st |-> r.st]
           ELSE
             LET addr == Len(r.st.heap) + 1
                 st3 == [r.st EXCEPT !.heap =
                           Append(@, NewNode(id, node, body, r.nodes))]
             IN ParseLoop(items, i + 1, depth, st3, Append(parsed, addr))

\* parseComments without the test of the depth
parseComments_NoDepthTest(children, depth, st) ==
  IF ~children.arr \/ st.count >= MAX_COMMENTS
  THEN [nodes |-> <<>>, st |-> st]
  ELSE ParseLoop(children.items, 1, depth, st, <<>>)

\* parseComments(children, depth, state, moreStubs)
parseComments(children, depth, st) ==
  IF ~children.arr \/ depth > MAX_COMMENT_DEPTH \/ st.count >= MAX_COMMENTS
  THEN [nodes |-> <<>>, st |-> st]
  ELSE ParseLoop(children.items, 1, depth, st, <<>>)

(***************************************************************************)
(* The flat-forest builder                                                 *)
(***************************************************************************)

\* index of key id in an insertion-ordered Map, 0 when absent
MapIndex(m, id) ==
  IF \E k \in 1..Len(m) : m[k].id = id
  THEN CHOOSE k \in 1..Len(m) : m[k].id = id
  ELSE 0

\* Map.prototype.has on nodeMap
MapHas(m, id) == MapIndex(m, id) # 0

\* nodeMap.set(id, node) and parentMap.set(id, parentId): a key that is
\* already present keeps its position and takes the new value
MapSet(m, id, addr, parentId) ==
  LET e == [id |-> id, node |-> addr, parentId |-> parentId]
      k == MapIndex(m, id)
  IN IF k = 0 THEN Append(m, e) ELSE [m EXCEPT ![k] = e]

RECURSIVE BuildNodes(_, _, _)

\* BuildNodes without the test of the body
BuildNodes_KeepBlank(things, i, b) ==
  IF i > Len(things) THEN b
  ELSE
    LET thing == things[i] IN
    IF thing.nul THEN [b EXCEPT !.threw = TRUE]
    ELSE IF thing.kind # "t1" \/ ~thing.hasData
    THEN BuildNodes(things, i + 1, b)
    ELSE
      LET fresh == ~IsString(thing.id)
          uuid1 == IF fresh THEN b.uuid + 1 ELSE b.uuid
          id == IF fresh THEN RandomUUID(uuid1) ELSE thing.id
          body == IF IsString(thing.body) THEN thing.body ELSE <<>>
          parentId == IF IsString(thing.parent_id) THEN thing.parent_id
                      ELSE <<>>
          addr == Len(b.heap) + 1
      IN BuildNodes(things, i + 1,
           [b EXCEPT !.uuid = uuid1,
                     !.heap = Append(@, NewNode(id, thing, body, <<>>)),
                     !.map = MapSet(@, id, addr, parentId)])

\* first loop of buildTreeFromFlat: nodeMap and parentMap
BuildNodes(things, i, b) ==
  IF i > Len(things) THEN b
  ELSE
    LET thing == things[i] IN
    IF thing.nul THEN [b EXCEPT !.threw = TRUE]
    ELSE IF thing.kind # "t1" \/ ~thing.hasData
    THEN BuildNodes(things, i + 1, b)
    ELSE
      LET fresh == ~IsString(thing.id)
          uuid1 == IF fresh THEN b.uuid + 1 ELSE b.uuid
          id == IF fresh THEN RandomUUID(uuid1) ELSE thing.id
          body == IF IsString(thing.body) THEN thing.body ELSE <<>>
      IN IF Trim(body) = <<>>
         THEN BuildNodes(things, i + 1, [b EXCEPT !.uuid = uuid1])
         ELSE
           LET parentId == IF IsString(thing.parent_id) THEN thing.parent_id
                           ELSE <<>>
               addr == Len(b.heap) + 1
           IN BuildNodes(things, i + 1,
                [b EXCEPT !.uuid = uuid1,
                          !.heap = Append(@, NewNode(id, thing, body, <<>>)),
                          !.map = MapSet(@, id, addr, parentId)])

RECURSIVE LinkChildren(_, _, _)
\* second loop: a node whose parent is in the batch becomes its reply
LinkChildren(m, k, heap0) ==
  IF k > Len(m) THEN heap0
  ELSE
    LET parentShortId == StripTypeTag(m[k].parentId)
        p == MapIndex(m, parentShortId)
    IN IF p # 0
       THEN LinkChildren(m, k + 1,
              [heap0 EXCEPT ![m[p].node].replies = Append(@, m[k].node)])
       ELSE LinkChildren(m, k + 1, heap0)

\* index of key parentId in byParent, 0 when absent
GroupIndex(byParent, parentId) ==
  IF \E k \in 1..Len(byParent) : byParent[k].parentId = parentId
  THEN CHOOSE k \in 1..Len(byParent) : byParent[k].parentId = parentId
  ELSE 0

RECURSIVE GroupRoots(_, _, _)

\* GroupRoots without the test that the parent is outside the batch
GroupRoots_NoHasTest(m, k, byParent) ==
  IF k > Len(m) THEN byParent
  ELSE
    LET parentFullId == m[k].parentId
        g == GroupIndex(byParent, parentFullId)
    IN GroupRoots(m, k + 1,
         IF g = 0
         THEN Append(byParent,
                     [parentId |-> parentFullId, nodes |-> <<m[k].node>>])
         ELSE [byParent EXCEPT ![g].nodes = Append(@, m[k].node)])

\* GroupRoots with unshift in place of push
GroupRoots_Unshift(m, k, byParent) ==
  IF k > Len(m) THEN byParent
  ELSE
    LET parentFullId == m[k].parentId
        parentShortId == StripTypeTag(parentFullId)
        g == GroupIndex(byParent, parentFullId)
    IN IF ~MapHas(m, parentShortId)
       THEN GroupRoots(m, k + 1,
              IF g = 0
              THEN Append(byParent,
                          [parentId |-> parentFullId, nodes |-> <<m[k].node>>])
              ELSE [byParent EXCEPT ![g].nodes = <<m[k].node>> \o @])
       ELSE GroupRoots(m, k + 1, byParent)

\* GroupRoots with the groups keyed by the stripped parent reference
GroupRoots_StrippedKey(m, k, byParent) ==
  IF k > Len(m) THEN byParent
  ELSE
    LET parentFullId == m[k].parentId
        parentShortId == StripTypeTag(parentFullId)
        g == GroupIndex(byParent, parentShortId)
    IN IF ~MapHas(m, parentShortId)
       THEN GroupRoots(m, k + 1,
              IF g = 0
              THEN Append(byParent,
                          [parentId |-> parentShortId, nodes |-> <<m[k].node>>])
              ELSE [byParent EXCEPT ![g].nodes = Append(@, m[k].node)])
       ELSE GroupRoots(m, k + 1, byParent)

\* third loop: the other nodes are grouped under their full parent id
GroupRoots(m, k, byParent) ==
  IF k > Len(m) THEN byParent
  ELSE
    LET parentFullId == m[k].parentId
        parentShortId == StripTypeTag(parentFullId)
        g == GroupIndex(byParent, parentFullId)
    IN IF ~MapHas(m, parentShortId)
       THEN GroupRoots(m, k + 1,
              IF g = 0
              THEN Append(byParent,
                          [parentId |-> parentFullId, nodes |-> <<m[k].node>>])
              ELSE [byParent EXCEPT ![g].nodes = Append(@, m[k].node)])
       ELSE GroupRoots(m, k + 1, byParent)

\* buildTreeFromFlat(things): byParent as the sequence of its entries in
\* insertion order, the heap with the new nodes, and whether it threw
buildTreeFromFlat(things, heap0, uuid0) ==
  LET b == BuildNodes(things, 1,
             [map |-> <<>>, heap |-> heap0, uuid |-> uuid0, threw |-> FALSE])
  IN IF b.threw
     THEN [byParent |-> <<>>, heap |-> heap0, uuid |-> b.uuid, threw |-> TRUE]
     ELSE [byParent |-> GroupRoots(b.map, 1, <<>>),
           heap |-> LinkChildren(b.map, 1, b.heap),
           uuid |-> b.uuid, threw |-> FALSE]

(***************************************************************************)
(* The splicer                                                             *)
(***************************************************************************)

RECURSIVE insertIntoTree(_, _, _, _)
RECURSIVE InsertLoop(_, _, _, _, _)

\* InsertLoop with unshift in place of push
InsertLoop_Unshift(tree, i, parentId, nodes, heap0) ==
  IF i > Len(tree) THEN [found |-> FALSE, heap |-> heap0]
  ELSE
    LET comment == heap0[tree[i]] IN
    IF T1(comment.id) = parentId \/ T3(comment.id) = parentId
    THEN [found |-> TRUE,
          heap |-> [heap0 EXCEPT ![tree[i]].replies = nodes \o @]]
    ELSE
      LET r == IF Len(comment.replies) > 0
               THEN insertIntoTree(comment.replies, parentId, nodes, heap0)
               ELSE [found |-> FALSE, heap |-> heap0]
      IN IF r.found THEN r
         ELSE InsertLoop(tree, i + 1, parentId, nodes, heap0)

\* InsertLoop that does not push a node whose id a reply already has
InsertLoop_Dedup(tree, i, parentId, nodes, heap0) ==
  IF i > Len(tree) THEN [found |-> FALSE, heap |-> heap0]
  ELSE
    LET comment == heap0[tree[i]]
        IsNew(x) == \A k \in 1..Len(comment.replies) :
                      heap0[comment.replies[k]].id # heap0[x].id
    IN
    IF T1(comment.id) = parentId \/ T3(comment.id) = parentId
    THEN [found |-> TRUE,
          heap |-> [heap0 EXCEPT ![tree[i]].replies =
                      @ \o SelectSeq(nodes, IsNew)]]
    ELSE
      LET r == IF Len(comment.replies) > 0
               THEN insertIntoTree(comment.replies, parentId, nodes, heap0)
               ELSE [found |-> FALSE, heap |-> heap0]
      IN IF r.found THEN r
         ELSE InsertLoop(tree, i + 1, parentId, nodes, heap0)

\* InsertLoop that goes on after a match and appends to every match
InsertLoop_AllMatches(tree, i, parentId, nodes, heap0) ==
  IF i > Len(tree) THEN [found |-> FALSE, heap |-> heap0]
  ELSE
    LET comment == heap0[tree[i]] IN
    IF T1(comment.id) = parentId \/ T3(comment.id) = parentId
    THEN
      LET rest == InsertLoop(tree, i + 1, parentId, nodes,
                             [heap0 EXCEPT ![tree[i]].replies = @ \o nodes])
      IN [found |-> TRUE, heap |-> rest.heap]
    ELSE
      LET r == IF Len(comment.replies) > 0
               THEN insertIntoTree(comment.replies, parentId, nodes, heap0)
               ELSE [found |-> FALSE, heap |-> heap0]
          rest == InsertLoop(tree, i + 1, parentId, nodes, r.heap)
      IN [found |-> r.found \/ rest.found, heap |-> rest.heap]

\* the for loop of insertIntoTree, from element i of tree on
InsertLoop(tree, i, parentId, nodes, heap0) ==
  IF i > Len(tree) THEN [found |-> FALSE, heap |-> heap0]
  ELSE
    LET comment == heap0[tree[i]] IN
    IF T1(comment.id) = parentId \/ T3(comment.id) = parentId
    THEN [found |-> TRUE,
          heap |-> [heap0 EXCEPT ![tree[i]].replies = @ \o nodes]]
    ELSE
      LET r == IF Len(comment.replies) > 0
               THEN insertIntoTree(comment.replies, parentId, nodes, heap0)
               ELSE [found |-> FALSE, heap |-> heap0]
      IN IF r.found THEN r
         ELSE InsertLoop(tree, i + 1, parentId, nodes, heap0)

\* insertIntoTree(tree, parentId, nodes)
insertIntoTree(tree, parentId, nodes, heap0) ==
  InsertLoop(tree, 1, parentId, nodes, heap0)

(***************************************************************************)
(* Inputs                                                                  *)
(***************************************************************************)

\* longest sequence of sibling entries in an input listing
MaxSiblings == 2

\* greatest number of entries in the continuation responses of one
\* reconstruction, all batches together
MaxThings == 2

\* the sequences over S of length at most n
SeqsUpTo(S, n) == UNION {[1..m -> S] : m \in 0..n}

\* a one-character identifier
Id(ch) == <<ch>>

\* a whitespace-only body and a body with text
Blank == <<" ", "\n">>

Text == <<"h", "i">>

\* top-level entries of the listings of the orchestrator's specification
TopEntries ==
  { Comment(Id("b"), Text, T3(Id("p")),
            Arr(<<Comment(Id("c"), Text, T1(Id("b")), NotAnArray)>>)),
    Comment(Id("a"), Text, T3(Id("p")),
            Arr(<<Comment(Id("b"), Text, T1(Id("a")), NotAnArray),
                  More(T1(Id("a")), Arr(<<<<"m", "1">>>>))>>)),
    Comment(Id("b"), Blank, T3(Id("p")),
            Arr(<<Comment(Id("c"), Text, T1(Id("b")), NotAnArray)>>)),
    More(T3(Id("p")), Arr(<<<<"m", "2">>, <<"m", "3">>>>)),
    NullThing }

\* the values of listings?.[1]?.data?.children
Listings == {NotAnArray} \cup {Arr(s) : s \in SeqsUpTo(TopEntries, MaxSiblings)}

\* longest sequence of sibling entries below the top level
MaxReplies == 2

\* entries two levels below the top level
DeepEntries == <<Comment(Id("d"), Text, T1(Id("b")), NotAnArray)>>

\* entries one level below the top level
ReplyEntries ==
  { Comment(Id("b"), Text, T1(Id("a")), Arr(DeepEntries)),
    Comment(Id("c"), Text, T1(Id("a")), NotAnArray),
    More(T1(Id("a")), Arr(<<<<"m", "1">>>>)) }

\* top-level entries of the listings of the parser's specification
ParseEntries ==
  {Comment(Id("a"), Text, T3(Id("p")), r) :
     r \in {NotAnArray} \cup {Arr(s) : s \in SeqsUpTo(ReplyEntries, MaxReplies)}}
  \cup { Comment(NotAString, Text, T3(Id("p")), NotAnArray),
         Comment(Id("b"), Blank, T3(Id("p")), NotAnArray),
         More(T3(Id("p")), Arr(<<<<"m", "2">>, <<"m", "3">>>>)),
         More(T3(Id("p")), Arr(<<>>)),
         More(NotAString, Arr(<<<<"m", "4">>>>)),
         Other("t1", FALSE),
         NullThing }

\* the listings of the parser's specification
ParseListings ==
  {NotAnArray} \cup {Arr(s) : s \in SeqsUpTo(ParseEntries, MaxSiblings)}

\* the values of postData.id after the typeof test
PostIds == {Id("p"), <<>>}

\* entries of a continuation response
ThingEntries ==
  { Comment(Id("c"), Text, T1(Id("b")), NotAnArray),
    Comment(Id("d"), Text, T1(Id("b")), NotAnArray),
    Comment(Id("d"), Text, T1(Id("c")), NotAnArray),
    Comment(Id("e"), Text, T3(Id("p")), NotAnArray),
    Comment(Id("g"), Text, T3(Id("p")), NotAnArray),
    Comment(Id("f"), Text, T1(Id("z")), NotAnArray),
    Comment(Id("b"), Blank, T1(Id("a")), NotAnArray),
    NullThing }

\* the values of data?.json?.data?.things in a response
Responses == {NotAnArray} \cup {Arr(s) : s \in SeqsUpTo(ThingEntries, MaxThings)}

\* what one continuation request can come to: fetch rejects (network error
\* or the 12 s timeout), a non-success status, a body that is not JSON, or
\* a parsed body
Outcomes ==
  {[kind |-> "rejected", things |-> NotAnArray],
   [kind |-> "notOk", things |-> NotAnArray],
   [kind |-> "badJson", things |-> NotAnArray]}
  \cup {[kind |-> "ok", things |-> r] : r \in Responses}

(***************************************************************************)
(* URLs and the redirect target                                            *)
(*                                                                         *)
(* A raw URL string is what `new URL` makes of it: nothing for a string    *)
(* that does not parse, otherwise the protocol, the host name, the         *)
(* segments of the path (each a sequence of characters) and the values of  *)
(* the search parameters q and url, which are raw URL strings again.       *)
(***************************************************************************)

\* an absent value (undefined, or null from searchParams.get)
NoUrl == [raw |-> "absent"]

\* the empty string
EmptyUrl == [raw |-> "empty"]

\* a non-empty string for which `new URL` throws
JunkUrl == [raw |-> "junk"]

\* a string that `new URL` parses
Url(protocol, hostname, path, q, u) ==
  [raw |-> "url", protocol |-> protocol, hostname |-> hostname,
   path |-> path, q |-> q, url |-> u]

\* truthiness of a raw string
Truthy(rawUrl) == rawUrl.raw \notin {"absent", "empty"}

REDDIT_HOSTS ==
  {"reddit.com", "www.reddit.com", "old.reddit.com", "m.reddit.com",
   "np.reddit.com", "redd.it"}

GOOGLE_REDIRECT_HOSTS == {"google.com", "www.google.com"}

LIMEN_BASE_URL == [protocol |-> "https:", hostname |-> "limen.sh"]

\* parseUrl(rawUrl); NoUrl stands for null
parseUrl(rawUrl) == IF rawUrl.raw = "url" THEN rawUrl ELSE NoUrl

\* isWebUrl(urlObject)
isWebUrl(urlObject) == urlObject.protocol \in {"http:", "https:"}

UpperCase ==
  <<"A", "B", "C", "D", "E", "F", "G", "H", "I", "J", "K", "L", "M",
    "N", "O", "P", "Q", "R", "S", "T", "U", "V", "W", "X", "Y", "Z">>

LowerCase ==
  <<"a", "b", "c", "d", "e", "f", "g", "h", "i", "j", "k", "l", "m",
    "n", "o", "p", "q", "r", "s", "t", "u", "v", "w", "x", "y", "z">>

\* a character under the i flag of the regular expression
Lower(ch) ==
  IF \E k \in 1..26 : UpperCase[k] = ch
  THEN LowerCase[CHOOSE k \in 1..26 : UpperCase[k] = ch]
  ELSE ch

\* the class [a-z0-9] under the i flag
IsAlnum(ch) == Lower(ch) \in {LowerCase[k] : k \in 1..26} \cup Digit

RECURSIVE AlnumPrefix(_)
\* the longest prefix of s in [a-z0-9]*
AlnumPrefix(s) ==
  IF s # <<>> /\ IsAlnum(Head(s)) THEN <<Head(s)>> \o AlnumPrefix(Tail(s))
  ELSE <<>>

\* the segment "comments"
CommentsSegment == <<"c", "o", "m", "m", "e", "n", "t", "s">>

\* pathname.match(/\/comments\/([a-z0-9]+)/i)?.[1]: the group of the
\* leftmost match, <<>> when there is none
MatchCommentsId(path) ==
  LET at == {k \in 1..(Len(path) - 1) :
               /\ [n \in 1..Len(path[k]) |-> Lower(path[k][n])]
                    = CommentsSegment
               /\ AlnumPrefix(path[k + 1]) # <<>>}
  IN IF at = {} THEN <<>>
     ELSE AlnumPrefix(path[(CHOOSE k \in at : \A x \in at : k <= x) + 1])

\* s is not the empty segment
IsNonEmpty(s) == s # <<>>

\* getRedditPostId(urlObject); <<>> stands for null
getRedditPostId(urlObject) ==
  IF urlObject.hostname = "redd.it"
  THEN LET segs == SelectSeq(urlObject.path, IsNonEmpty) IN
       IF segs = <<>> THEN <<>> ELSE segs[1]
  ELSE MatchCommentsId(urlObject.path)

RECURSIVE getResolvedRedditUrl(_)
\* getResolvedRedditUrl that follows the parameters q and url of any host
getResolvedRedditUrl_AnyHost(rawUrl) ==
  LET parsed == parseUrl(rawUrl) IN
  IF parsed = NoUrl THEN NoUrl
  ELSE
    LET redirected == IF Truthy(parsed.q) THEN parsed.q ELSE parsed.url IN
    IF Truthy(redirected)
    THEN getResolvedRedditUrl(redirected)
    ELSE IF parsed.hostname \notin REDDIT_HOSTS THEN NoUrl
    ELSE parsed

\* getResolvedRedditUrl(rawUrl); NoUrl stands for null
getResolvedRedditUrl(rawUrl) ==
  LET parsed == parseUrl(rawUrl) IN
  IF parsed = NoUrl THEN NoUrl
  ELSE
    LET redirected == IF Truthy(parsed.q) THEN parsed.q ELSE parsed.url IN
    IF parsed.hostname \in GOOGLE_REDIRECT_HOSTS /\ Truthy(redirected)
    THEN getResolvedRedditUrl(redirected)
    ELSE IF parsed.hostname \notin REDDIT_HOSTS THEN NoUrl
    ELSE parsed

\* getRedirectTarget(rawUrl): the URL of Limen whose search parameter url
\* is the resolved URL; NoUrl stands for null
getRedirectTarget(rawUrl) ==
  LET resolvedRedditUrl == getResolvedRedditUrl(rawUrl) IN
  IF resolvedRedditUrl = NoUrl THEN NoUrl
  ELSE IF getRedditPostId(resolvedRedditUrl) = <<>> THEN NoUrl
  ELSE Url(LIMEN_BASE_URL.protocol, LIMEN_BASE_URL.hostname, <<>>, NoUrl,
           resolvedRedditUrl)

\* the tab listener has not run
NoTabUpdate == [url |-> NoUrl, updated |-> FALSE, target |-> NoUrl]

\* the listener of chrome.tabs.onUpdated on one event: the URL it looked
\* at, whether it called chrome.tabs.update, and with which URL
TabListener(changeInfo, tabObject) ==
  LET currentUrl == IF Truthy(changeInfo.url) THEN changeInfo.url
                    ELSE IF Truthy(tabObject.pendingUrl)
                    THEN tabObject.pendingUrl
                    ELSE tabObject.url
      parsedCurrentUrl == parseUrl(currentUrl)
      redirectTarget == getRedirectTarget(currentUrl)
      ignored == [url |-> currentUrl, updated |-> FALSE, target |-> NoUrl]
  IN IF ~Truthy(currentUrl) THEN ignored
     ELSE IF parsedCurrentUrl = NoUrl THEN ignored
     ELSE IF ~isWebUrl(parsedCurrentUrl) THEN ignored
     ELSE IF redirectTarget # NoUrl /\ currentUrl # redirectTarget
     THEN [url |-> currentUrl, updated |-> TRUE, target |-> redirectTarget]
     ELSE ignored

(***************************************************************************)
(* The orchestrator                                                        *)
(***************************************************************************)

VARIABLES
  pc,         \* phase of the reconstruction
  listing,    \* commentsChildren
  postId,     \* postId
  heap,       \* the comment node objects
  comments,   \* the top-level array of the tree
  moreStubs,  \* the stub list filled by the nested pass
  uuid,       \* number of identifiers drawn from crypto.randomUUID
  childIds,   \* allMoreChildIds
  i,          \* loop variable of fetchMoreChildren
  allThings,  \* allThings of fetchMoreChildren
  requests,   \* the continuation requests issued so far, with their outcome
  byParent,   \* byParent of buildTreeFromFlat, in iteration order
  taken,          \* number of entries of byParent the splicing loop has taken
  caught,     \* whether the catch block of the orchestrator was entered
  other,      \* the locals of a second call of fetchRedditPayload
  tab,        \* what the tab listener did with the last tab update
  page,       \* the page's call of fetchRedditViaExtension
  script,     \* what the content script forwarded and posted
  worker      \* the message listener of the background worker

vars == <<pc, listing, postId, heap, comments, moreStubs, uuid, childIds, i,
          allThings, requests, byParent, taken, caught, other, tab,
          page, script, worker>>

bridgeVars == <<page, script, worker>>

\* the page before fetchRedditViaExtension is called
NoPage ==
  [requestId |-> <<>>, promise |-> "none", value |-> "", settles |-> 0,
   listening |-> FALSE, timer |-> "none", log |-> <<>>]

\* the content script before any message event
NoScript ==
  [log |-> <<>>, forwarded |-> <<>>, calls |-> <<>>, posted |-> <<>>]

\* the background worker before any message
NoWorker == [calls |-> <<>>, responses |-> <<>>]

\* the second call of fetchRedditPayload before the listener has received
\* its message
NotStarted ==
  [pc |-> "NotStarted", listing |-> NotAnArray, postId |-> <<>>,
   heap |-> <<>>, comments |-> <<>>, moreStubs |-> <<>>, childIds |-> <<>>,
   i |-> 0, allThings |-> <<>>, byParent |-> <<>>, taken |-> 0,
   caught |-> "no"]

RECURSIVE FlatMapChildIds(_)
\* moreStubs.flatMap((s) => s.childIds)
FlatMapChildIds(stubs) ==
  IF stubs = <<>> THEN <<>>
  ELSE Head(stubs).childIds \o FlatMapChildIds(Tail(stubs))

Min(x, y) == IF x <= y THEN x ELSE y

\* slice with its end index taken as inclusive
Slice_Inclusive(s, from, to) == SubSeq(s, from + 1, Min(to + 1, Len(s)))

\* childIds.slice(i, i + MORE_CHILDREN_BATCH), i counted from 0
Slice(s, from, to) == SubSeq(s, from + 1, Min(to, Len(s)))

InitWith(L, P) ==
  /\ pc = "ParsingNested"
  /\ listing \in L
  /\ postId \in P
  /\ heap = <<>>
  /\ comments = <<>>
  /\ moreStubs = <<>>
  /\ uuid = 0
  /\ childIds = <<>>
  /\ i = 0
  /\ allThings = <<>>
  /\ requests = <<>>
  /\ byParent = <<>>
  /\ taken = 0
  /\ caught = "no"
  /\ tab = NoTabUpdate
  /\ page = NoPage
  /\ script = NoScript
  /\ worker = NoWorker

Init == InitWith(Listings, PostIds) /\ other = NotStarted

\* ParseNested without the test that guards the continuation pass
ParseNested_NoGuard ==
  /\ pc = "ParsingNested"
  /\ LET r == parseComments(listing, 0, ParseState(heap, uuid)) IN
     IF r.st.threw
     THEN /\ pc' = "Failed"
          /\ UNCHANGED <<heap, comments, moreStubs, uuid, childIds>>
     ELSE /\ comments' = r.nodes
          /\ heap' = r.st.heap
          /\ moreStubs' = r.st.moreStubs
          /\ uuid' = r.st.uuid
          /\ childIds' = FlatMapChildIds(r.st.moreStubs)
          /\ pc' = "ResolvingContinuations"
  /\ UNCHANGED <<listing, postId, i, allThings, requests, byParent, taken, caught,
                 other, tab, bridgeVars>>

\* fetchRedditPayload from the creation of moreStubs to the test that
\* guards the continuation pass
ParseNested ==
  /\ pc = "ParsingNested"
  /\ LET r == parseComments(listing, 0, ParseState(heap, uuid)) IN
     IF r.st.threw
     THEN /\ pc' = "Failed"
          /\ UNCHANGED <<heap, comments, moreStubs, uuid, childIds>>
     ELSE /\ comments' = r.nodes
          /\ heap' = r.st.heap
          /\ moreStubs' = r.st.moreStubs
          /\ uuid' = r.st.uuid
          /\ childIds' = FlatMapChildIds(r.st.moreStubs)
          /\ pc' = IF Len(childIds') > 0 /\ postId # <<>>
                   THEN "ResolvingContinuations"
                   ELSE "Done"
  /\ UNCHANGED <<listing, postId, i, allThings, requests, byParent, taken, caught,
                 other, tab, bridgeVars>>

\* FetchBatch without the try block: a rejected fetch reaches the caller
FetchBatch_Rethrow ==
  /\ pc = "ResolvingContinuations"
  /\ i < Len(childIds)
  /\ \E o \in Outcomes :
       LET batch == Slice(childIds, i, i + MORE_CHILDREN_BATCH) IN
       /\ Len(allThings) + Len(o.things.items) <= MaxThings
       /\ requests' = Append(requests,
                           [batch |-> batch, outcome |-> o.kind,
                            things |-> o.things,
                            extracted |-> o.kind = "ok" /\ o.things.arr])
       /\ allThings' = IF o.kind = "ok" /\ o.things.arr
                       THEN allThings \o o.things.items
                       ELSE allThings
       /\ pc' = IF o.kind = "rejected" THEN "Failed" ELSE pc
  /\ i' = i + MORE_CHILDREN_BATCH
  /\ UNCHANGED <<listing, postId, heap, comments, moreStubs, uuid,
                 childIds, byParent, taken, caught,
                 other, tab, bridgeVars>>

\* FetchBatch that asks again for a batch whose request failed
FetchBatch_Retry ==
  /\ pc = "ResolvingContinuations"
  /\ i < Len(childIds)
  /\ \E o \in Outcomes :
       LET batch == Slice(childIds, i, i + MORE_CHILDREN_BATCH) IN
       /\ Len(allThings) + Len(o.things.items) <= MaxThings
       /\ Len(requests) < 2 * Len(childIds)
       /\ requests' = Append(requests,
                           [batch |-> batch, outcome |-> o.kind,
                            things |-> o.things,
                            extracted |-> o.kind = "ok" /\ o.things.arr])
       /\ allThings' = IF o.kind = "ok" /\ o.things.arr
                       THEN allThings \o o.things.items
                       ELSE allThings
       /\ i' = IF o.kind = "ok" THEN i + MORE_CHILDREN_BATCH ELSE i
  /\ UNCHANGED <<pc, listing, postId, heap, comments, moreStubs, uuid,
                 childIds, byParent, taken, caught,
                 other, tab, bridgeVars>>

\* one iteration of the loop of fetchMoreChildren
FetchBatch ==
  /\ pc = "ResolvingContinuations"
  /\ i < Len(childIds)
  /\ \E o \in Outcomes :
       LET batch == Slice(childIds, i, i + MORE_CHILDREN_BATCH) IN
       /\ Len(allThings) + Len(o.things.items) <= MaxThings
       /\ requests' = Append(requests,
                           [batch |-> batch, outcome |-> o.kind,
                            things |-> o.things,
                            extracted |-> o.kind = "ok" /\ o.things.arr])
       /\ allThings' = IF o.kind = "ok" /\ o.things.arr
                       THEN allThings \o o.things.items
                       ELSE allThings
  /\ i' = i + MORE_CHILDREN_BATCH
  /\ UNCHANGED <<pc, listing, postId, heap, comments, moreStubs, uuid,
                 childIds, byParent, taken, caught,
                 other, tab, bridgeVars>>

\* BuildFlat outside the try block: a TypeError of buildTreeFromFlat reaches
\* the caller
BuildFlat_Rethrow ==
  /\ pc = "ResolvingContinuations"
  /\ i >= Len(childIds)
  /\ LET moreThings == allThings
         r == buildTreeFromFlat(moreThings, heap, uuid)
     IN IF Len(moreThings) = 0
        THEN /\ pc' = "Done"
             /\ UNCHANGED <<heap, uuid, byParent, taken, caught>>
        ELSE IF r.threw
        THEN /\ pc' = "Failed"
             /\ uuid' = r.uuid
             /\ UNCHANGED <<heap, byParent, taken, caught>>
        ELSE /\ byParent' = r.byParent
             /\ heap' = r.heap
             /\ uuid' = r.uuid
             /\ taken' = 0
             /\ pc' = IF Len(r.byParent) = 0 THEN "Done" ELSE "Splicing"
             /\ UNCHANGED caught
  /\ UNCHANGED <<listing, postId, comments, moreStubs, childIds, i, allThings,
                 requests,
                 other, tab, bridgeVars>>

\* fetchMoreChildren returns; the orchestrator builds the flat forest
BuildFlat ==
  /\ pc = "ResolvingContinuations"
  /\ i >= Len(childIds)
  /\ LET moreThings == allThings
         r == buildTreeFromFlat(moreThings, heap, uuid)
     IN IF Len(moreThings) = 0
        THEN /\ pc' = "Done"
             /\ UNCHANGED <<heap, uuid, byParent, taken, caught>>
        ELSE IF r.threw
        THEN /\ pc' = "Done"
             /\ caught' = "build"
             /\ uuid' = r.uuid
             /\ UNCHANGED <<heap, byParent, taken>>
        ELSE /\ byParent' = r.byParent
             /\ heap' = r.heap
             /\ uuid' = r.uuid
             /\ taken' = 0
             /\ pc' = IF Len(r.byParent) = 0 THEN "Done" ELSE "Splicing"
             /\ UNCHANGED caught
  /\ UNCHANGED <<listing, postId, comments, moreStubs, childIds, i, allThings,
                 requests,
                 other, tab, bridgeVars>>

\* SplicePair with unshift in place of push on the top level
SplicePair_Unshift(tree, pair, post) ==
  LET r == insertIntoTree(tree.comments, pair.parentId, pair.nodes, tree.heap)
  IN [comments |-> IF ~r.found /\ pair.parentId = T3(post)
                   THEN pair.nodes \o tree.comments
                   ELSE tree.comments,
      heap |-> r.heap]

\* SplicePair without the test of the thread's root reference
SplicePair_NoRootTest(tree, pair, post) ==
  LET r == insertIntoTree(tree.comments, pair.parentId, pair.nodes, tree.heap)
  IN [comments |-> IF ~r.found
                   THEN tree.comments \o pair.nodes
                   ELSE tree.comments,
      heap |-> r.heap]

\* SplicePair with the top level assigned instead of appended to
SplicePair_Assign(tree, pair, post) ==
  LET r == insertIntoTree(tree.comments, pair.parentId, pair.nodes, tree.heap)
  IN [comments |-> IF ~r.found /\ pair.parentId = T3(post)
                   THEN pair.nodes
                   ELSE tree.comments,
      heap |-> r.heap]

\* the body of the loop over byParent, applied to the tree (comments, heap)
SplicePair(tree, pair, post) ==
  LET r == insertIntoTree(tree.comments, pair.parentId, pair.nodes, tree.heap)
  IN [comments |-> IF ~r.found /\ pair.parentId = T3(post)
                   THEN tree.comments \o pair.nodes
                   ELSE tree.comments,
      heap |-> r.heap]

\* one iteration of the loop over byParent
SpliceStep ==
  /\ pc = "Splicing"
  /\ taken < Len(byParent)
  /\ LET t == SplicePair([comments |-> comments, heap |-> heap],
                         byParent[taken + 1], postId)
     IN /\ heap' = t.heap
        /\ comments' = t.comments
  /\ taken' = taken + 1
  /\ pc' = IF taken' = Len(byParent) THEN "Done" ELSE "Splicing"
  /\ UNCHANGED <<listing, postId, moreStubs, uuid, childIds, i, allThings,
                 requests, byParent, caught,
                 other, tab, bridgeVars>>

\* an iteration of the loop over byParent throws before it changes the tree
\* (a RangeError of the engine: the call stack of the recursive search or
\* the argument list of push(...nodes) is exhausted); the catch block of the
\* orchestrator is entered
SpliceThrows ==
  /\ pc = "Splicing"
  /\ taken < Len(byParent)
  /\ caught' = "splice"
  /\ pc' = "Done"
  /\ UNCHANGED <<listing, postId, heap, comments, moreStubs, uuid, childIds, i,
                 allThings, requests, byParent, taken,
                 other, tab, bridgeVars>>

Next == ParseNested \/ FetchBatch \/ BuildFlat \/ SpliceStep \/ SpliceThrows

Spec == Init /\ [][Next]_vars

\* the nested pass alone, over a larger set of listings
ParseInit == InitWith(ParseListings, {Id("p")}) /\ other = NotStarted

ParseNext == ParseNested

ParseSpec == ParseInit /\ [][ParseNext]_vars

\* longest sequence of entries the continuation responses of the builder's
\* specification come to
MaxFlat == 3

\* entries of the flat batches of the builder's specification
FlatEntries ==
  { Comment(Id("c"), Text, T1(Id("b")), NotAnArray),
    Comment(Id("d"), Text, T1(Id("c")), NotAnArray),
    Comment(Id("d"), Text, T1(Id("b")), NotAnArray),
    Comment(Id("e"), Text, T1(Id("c")), NotAnArray),
    Comment(Id("c"), Text, T1(Id("c")), NotAnArray),
    Comment(Id("c"), Text, T1(Id("d")), NotAnArray),
    Comment(Id("b"), Text, T1(Id("a")), NotAnArray),
    Comment(Id("e"), Text, T3(Id("p")), NotAnArray),
    Comment(NotAString, Text, NotAString, NotAnArray),
    Comment(Id("e"), NotAString, T3(Id("p")), NotAnArray),
    Other("", TRUE),
    Other("t1", FALSE),
    NullThing }

\* the listings of the builder's specification
BuildListings ==
  { Arr(<<Comment(Id("a"), Text, T3(Id("p")),
                  Arr(<<Comment(Id("b"), Text, T1(Id("a")), NotAnArray),
                        More(T1(Id("a")), Arr(<<<<"m", "1">>>>))>>))>>),
    Arr(<<More(T3(Id("p")), Arr(<<<<"m", "2">>, <<"m", "3">>>>))>>),
    Arr(<<Comment(Id("p"), Text, T3(Id("p")), NotAnArray),
          More(T3(Id("p")), Arr(<<<<"m", "2">>>>))>>) }

\* the builder and the splicer over a larger set of flat batches: the state
\* in which fetchMoreChildren has issued its only request and its response
\* was extracted
BuildInit ==
  /\ pc = "ResolvingContinuations"
  /\ listing \in BuildListings
  /\ postId = Id("p")
  /\ allThings \in SeqsUpTo(FlatEntries, MaxFlat)
  /\ LET r == parseComments(listing, 0, ParseState(<<>>, 0)) IN
     /\ heap = r.st.heap
     /\ comments = r.nodes
     /\ moreStubs = r.st.moreStubs
     /\ uuid = r.st.uuid
     /\ childIds = FlatMapChildIds(r.st.moreStubs)
     /\ requests = <<[batch |-> Slice(FlatMapChildIds(r.st.moreStubs), 0,
                                     MORE_CHILDREN_BATCH),
                      outcome |-> "ok", things |-> Arr(allThings),
                      extracted |-> TRUE]>>
  /\ i = MORE_CHILDREN_BATCH
  /\ byParent = <<>>
  /\ taken = 0
  /\ caught = "no"
  /\ other = NotStarted
  /\ tab = NoTabUpdate
  /\ page = NoPage
  /\ script = NoScript
  /\ worker = NoWorker

BuildNext == BuildFlat \/ SpliceStep \/ SpliceThrows

BuildSpec == BuildInit /\ [][BuildNext]_vars

\* greatest number of times one sub-forest is given to insertIntoTree
MaxSplices == 2

\* number of occurrences of x in the sequence s
Count(s, x) == Cardinality({k \in 1..Len(s) : s[k] = x})

\* a caller gives insertIntoTree once more the tree and the entry of byParent
\* that the loop took last, and the search finds the parent again
SpliceAgain ==
  /\ pc \in {"Splicing", "Done"}
  /\ taken >= 1
  /\ caught = "no"
  /\ LET pair == byParent[taken]
         r == insertIntoTree(comments, pair.parentId, pair.nodes, heap)
     IN /\ r.found
        /\ \A n \in 1..Len(heap) :
             Count(heap[n].replies, pair.nodes[1]) < MaxSplices
        /\ heap' = r.heap
  /\ UNCHANGED <<pc, listing, postId, comments, moreStubs, uuid, childIds, i,
                 allThings, requests, byParent, taken, caught,
                 other, tab, bridgeVars>>

\* the builder and the splicer, with callers that splice a sub-forest again
SpliceNext == BuildNext \/ SpliceAgain

SpliceSpec == BuildInit /\ [][SpliceNext]_vars

(***************************************************************************)
(* Two calls of fetchRedditPayload at once                                 *)
(*                                                                         *)
(* The listener starts one call per message and does not wait for it, so   *)
(* two calls interleave at their awaits.  The first call is the one of the *)
(* variables above; the locals of the second are the fields of other.      *)
(* The heap of each call holds the objects that call allocated.  What the  *)
(* calls share is the source of crypto.randomUUID, the variable uuid.      *)
(***************************************************************************)

\* the listings of the two calls
ConcListings ==
  { Arr(<<Comment(NotAString, Text, T3(Id("p")), NotAnArray),
          More(T3(Id("p")), Arr(<<<<"m", "2">>, <<"m", "3">>>>))>>),
    Arr(<<Comment(Id("a"), Text, T3(Id("p")),
                  Arr(<<Comment(Id("b"), Text, T1(Id("a")), NotAnArray),
                        More(T1(Id("a")), Arr(<<<<"m", "1">>>>))>>)),
          Comment(Id("b"), Text, T3(Id("p")),
                  Arr(<<Comment(Id("c"), Text, T1(Id("b")), NotAnArray)>>))>>) }

\* what a continuation request of the second call can come to
OtherOutcomes ==
  { [kind |-> "rejected", things |-> NotAnArray],
    [kind |-> "ok",
     things |-> Arr(<<Comment(NotAString, Text, T3(Id("p")), NotAnArray)>>)],
    [kind |-> "ok",
     things |-> Arr(<<Comment(Id("c"), Text, T1(Id("b")), NotAnArray),
                      Comment(Id("e"), Text, T3(Id("p")), NotAnArray)>>)] }

\* the variables of the first call
firstVars ==
  <<pc, listing, postId, heap, comments, moreStubs, childIds, i, allThings,
    requests, byParent, taken, caught>>

\* the counter and the stub list the second call would use if they were
\* module-level variables
OtherParseState_Shared ==
  [ParseState(<<>>, uuid) EXCEPT !.count = Len(heap), !.moreStubs = moreStubs]

\* { count: 0 } and moreStubs = [] of the second call
OtherParseState == ParseState(<<>>, uuid)

\* the nested pass of the second call
OtherParse ==
  /\ other.pc = "ParsingNested"
  /\ LET r == parseComments(other.listing, 0, OtherParseState)
         ids == FlatMapChildIds(r.st.moreStubs)
     IN IF r.st.threw
        THEN /\ other' = [other EXCEPT !.pc = "Failed"]
             /\ UNCHANGED uuid
        ELSE /\ other' = [other EXCEPT
                            !.comments = r.nodes,
                            !.heap = r.st.heap,
                            !.moreStubs = r.st.moreStubs,
                            !.childIds = ids,
                            !.pc = IF Len(ids) > 0 /\ other.postId # <<>>
                                   THEN "ResolvingContinuations"
                                   ELSE "Done"]
             /\ uuid' = r.st.uuid
  /\ UNCHANGED <<firstVars, tab, bridgeVars>>

\* one iteration of the loop of fetchMoreChildren in the second call
OtherFetch ==
  /\ other.pc = "ResolvingContinuations"
  /\ other.i < Len(other.childIds)
  /\ \E o \in OtherOutcomes :
       other' = [other EXCEPT
                   !.allThings = IF o.kind = "ok" /\ o.things.arr
                                 THEN @ \o o.things.items
                                 ELSE @,
                   !.i = @ + MORE_CHILDREN_BATCH]
  /\ UNCHANGED <<firstVars, uuid, tab, bridgeVars>>

\* fetchMoreChildren returns in the second call, which builds the flat forest
OtherBuild ==
  /\ other.pc = "ResolvingContinuations"
  /\ other.i >= Len(other.childIds)
  /\ LET moreThings == other.allThings
         r == buildTreeFromFlat(moreThings, other.heap, uuid)
     IN IF Len(moreThings) = 0
        THEN /\ other' = [other EXCEPT !.pc = "Done"]
             /\ UNCHANGED uuid
        ELSE IF r.threw
        THEN /\ other' = [other EXCEPT !.pc = "Done", !.caught = "build"]
             /\ uuid' = r.uuid
        ELSE /\ other' = [other EXCEPT
                            !.byParent = r.byParent,
                            !.heap = r.heap,
                            !.taken = 0,
                            !.pc = IF Len(r.byParent) = 0 THEN "Done"
                                   ELSE "Splicing"]
             /\ uuid' = r.uuid
  /\ UNCHANGED <<firstVars, tab, bridgeVars>>

\* one iteration of the loop over byParent in the second call
OtherSplice ==
  /\ other.pc = "Splicing"
  /\ other.taken < Len(other.byParent)
  /\ LET t == SplicePair([comments |-> other.comments, heap |-> other.heap],
                         other.byParent[other.taken + 1], other.postId)
     IN other' = [other EXCEPT
                    !.heap = t.heap,
                    !.comments = t.comments,
                    !.taken = @ + 1,
                    !.pc = IF other.taken + 1 = Len(other.byParent)
                           THEN "Done" ELSE "Splicing"]
  /\ UNCHANGED <<firstVars, uuid, tab, bridgeVars>>

\* an iteration of the loop over byParent throws in the second call
OtherSpliceThrows ==
  /\ other.pc = "Splicing"
  /\ other.taken < Len(other.byParent)
  /\ other' = [other EXCEPT !.caught = "splice", !.pc = "Done"]
  /\ UNCHANGED <<firstVars, uuid, tab, bridgeVars>>

ConcInit ==
  /\ InitWith(ConcListings, {Id("p")})
  /\ \E L \in ConcListings :
       other = [NotStarted EXCEPT !.pc = "ParsingNested", !.listing = L,
                                  !.postId = Id("p")]

ConcNext ==
  \/ ParseNested \/ FetchBatch \/ BuildFlat \/ SpliceStep \/ SpliceThrows
  \/ OtherParse \/ OtherFetch \/ OtherBuild \/ OtherSplice
  \/ OtherSpliceThrows

ConcSpec == ConcInit /\ [][ConcNext]_vars

(***************************************************************************)
(* The tab listener                                                        *)
(***************************************************************************)

\* paths of the URLs of the tab listener's specification: the home page, a
\* subreddit, a post, a post without its subreddit, a post path that ends
\* after "comments/", a profile, a listing of the subreddit "comments", a
\* short-link id, and the empty segment of "/"
TabPaths ==
  { <<>>,
    <<<<"r">>, <<"p", "i", "c", "s">>>>,
    <<<<"r">>, <<"p", "i", "c", "s">>, CommentsSegment, <<"a", "b", "c">>,
      <<"t", "i", "t", "l", "e">>>>,
    <<<<"C", "o", "m", "m", "e", "n", "t", "s">>, <<"a", "b", "c">>>>,
    <<<<"r">>, <<"p", "i", "c", "s">>, CommentsSegment, <<>>>>,
    <<<<"u", "s", "e", "r">>, <<"b", "o", "b">>>>,
    <<<<"r">>, CommentsSegment, <<"n", "e", "w">>>>,
    <<<<"a", "b", "c">>>>,
    <<<<>>>> }

\* URLs without search parameters
DirectUrls ==
  {Url(protocol, hostname, path, NoUrl, NoUrl) :
     protocol \in {"https:", "http:", "chrome:"},
     hostname \in {"www.reddit.com", "redd.it", "example.com"},
     path \in TabPaths}

\* values of the search parameters q and url of a Google link
ParamValues ==
  {NoUrl, EmptyUrl, JunkUrl}
  \cup {Url(protocol, hostname, path, NoUrl, NoUrl) :
          protocol \in {"https:", "ftp:"},
          hostname \in {"www.reddit.com", "example.com"},
          path \in { <<<<"r">>, <<"p", "i", "c", "s">>>>,
                     <<<<"r">>, <<"p", "i", "c", "s">>, CommentsSegment,
                       <<"a", "b", "c">>>> }}

\* Google links, and a Google link to a Google link
GoogleUrls ==
  LET links == {Url(protocol, "www.google.com", <<<<"u", "r", "l">>>>, q, u) :
                  protocol \in {"https:", "chrome:"},
                  q \in ParamValues, u \in ParamValues}
  IN links
     \cup {Url("https:", "google.com", <<<<"u", "r", "l">>>>, NoUrl, link) :
             link \in {x \in links : x.protocol = "https:" /\ x.url = NoUrl}}

\* the values of changeInfo.url
TabUrls ==
  {NoUrl, JunkUrl} \cup DirectUrls \cup GoogleUrls
  \cup {getRedirectTarget(x) : x \in DirectUrls}

\* the tab objects of the events: tab.pendingUrl and tab.url
TabObjects ==
  {[pendingUrl |-> pendingUrl, url |-> u] :
     pendingUrl \in {NoUrl,
                     Url("https:", "www.reddit.com",
                         <<<<"r">>, <<"p", "i", "c", "s">>>>, NoUrl, NoUrl)},
     u \in {NoUrl,
            Url("https:", "redd.it", <<<<"a", "b", "c">>>>, NoUrl, NoUrl)}}

\* chrome.tabs.onUpdated fires and the listener runs
TabUpdated ==
  /\ \E changeUrl \in TabUrls, tabObject \in TabObjects :
       tab' = TabListener([url |-> changeUrl], tabObject)
  /\ UNCHANGED <<firstVars, uuid, other, bridgeVars>>

\* the URLs the listener gives chrome.tabs.update
RedirectTargets == {getRedirectTarget(x) : x \in TabUrls} \ {NoUrl}

\* the tab loads the URL the listener gave chrome.tabs.update, or has
\* loaded it: chrome.tabs.onUpdated fires with that URL as changeInfo.url,
\* as the pending URL of the tab or as the URL of the tab, and the listener
\* runs
TabNavigated ==
  /\ tab.updated \/ tab.url \in RedirectTargets
  /\ LET target == IF tab.updated THEN tab.target ELSE tab.url IN
     \E changeUrl \in {NoUrl, target},
        tabObject \in {[pendingUrl |-> target, url |-> tab.url],
                       [pendingUrl |-> NoUrl, url |-> target]} :
       tab' = TabListener([url |-> changeUrl], tabObject)
  /\ UNCHANGED <<firstVars, uuid, other, bridgeVars>>

TabInit ==
  InitWith({NotAnArray}, {<<>>}) /\ other = NotStarted

TabNext == TabUpdated \/ TabNavigated

TabSpec == TabInit /\ [][TabNext]_vars

(***************************************************************************)
(* The page side of the extension bridge                                   *)
(*                                                                         *)
(* A message event of the page's window is the window it came from and its *)
(* data: a value that is not an object, or an object with a type, a        *)
(* requestId, an ok field ("true", "false", or "none" when it is not a     *)
(* boolean), a payload, an error (the empty string when absent) and a url. *)
(***************************************************************************)

EXTENSION_REQUEST_TYPE == "LIMEN_FETCH_REDDIT"

EXTENSION_RESPONSE_TYPE == "LIMEN_FETCH_REDDIT_RESULT"

\* event.data that is not an object
NotAnObject ==
  [obj |-> FALSE, type |-> "", requestId |-> NotAString, ok |-> "none",
   payload |-> "", error |-> "", url |-> NotAString]

\* event.data that is an object
Data(type, requestId, ok, payload, error) ==
  [NotAnObject EXCEPT !.obj = TRUE, !.type = type, !.requestId = requestId,
                      !.ok = ok, !.payload = payload, !.error = error]

\* `limen-${crypto.randomUUID()}`
LimenRequestId(n) == <<"l", "i", "m", "e", "n", "-">> \o RandomUUID(n)

\* the message of the timeout
DidNotRespond ==
  "Limen extension did not respond. Reload the extension and this page, then try again."

\* the message of a result without an error
UnableToLoad == "Unable to load this post via extension."

\* isBridgeResponse(value, requestId)
isBridgeResponse(value, requestId) ==
  /\ value.obj
  /\ value.type = EXTENSION_RESPONSE_TYPE
  /\ value.requestId = requestId
  /\ value.ok \in {"true", "false"}

\* resolve(value) of the promise's executor: the first call of resolve or
\* reject settles the promise, a later call changes nothing
resolve(p, value) ==
  IF p.promise = "pending"
  THEN [p EXCEPT !.promise = "resolved", !.value = value, !.settles = @ + 1]
  ELSE [p EXCEPT !.settles = @ + 1]

\* reject(new Error(message))
reject(p, message) ==
  IF p.promise = "pending"
  THEN [p EXCEPT !.promise = "rejected", !.value = message, !.settles = @ + 1]
  ELSE [p EXCEPT !.settles = @ + 1]

\* cleanup(): clearTimeout and removeEventListener
cleanup(p) ==
  [p EXCEPT !.timer = IF @ = "armed" THEN "cleared" ELSE @,
            !.listening = FALSE]

\* handleMessage without the test of the requestId
handleMessage_AnyRequestId(p, event) ==
  IF event.source # "window" THEN p
  ELSE IF ~(event.data.obj /\ event.data.type = EXTENSION_RESPONSE_TYPE
            /\ event.data.ok \in {"true", "false"}) THEN p
  ELSE IF event.data.ok = "true"
  THEN resolve(cleanup(p), event.data.payload)
  ELSE reject(cleanup(p),
              IF event.data.error # "" THEN event.data.error ELSE UnableToLoad)

\* handleMessage(event)
handleMessage(p, event) ==
  IF event.source # "window" THEN p
  ELSE IF ~isBridgeResponse(event.data, p.requestId) THEN p
  ELSE IF event.data.ok = "true"
  THEN resolve(cleanup(p), event.data.payload)
  ELSE reject(cleanup(p),
              IF event.data.error # "" THEN event.data.error ELSE UnableToLoad)

\* greatest number of message events of one window
MaxEvents == 3

\* the data of the message events the page's window gets: the results for
\* this request and for another, the page's own request, and other values
PageData ==
  {Data(EXTENSION_RESPONSE_TYPE, id, ok, payload, error) :
     id \in {LimenRequestId(1), LimenRequestId(2)},
     ok \in {"true", "false", "none"},
     payload \in {"tree"}, error \in {"", "upstream"}}
  \cup {Data(EXTENSION_REQUEST_TYPE, LimenRequestId(1), "none", "", ""),
        Data(EXTENSION_RESPONSE_TYPE, NotAString, "true", "tree", ""),
        NotAnObject}

\* the message events of the page's window
PageEvents ==
  {[source |-> source, data |-> data] :
     source \in {"window", "frame"}, data \in PageData}

\* the entry of the log for the timeout
TimeoutElapsed == [source |-> "timer", data |-> NotAnObject]

\* fetchRedditViaExtension(url) up to the return of the promise: the timer
\* is set, the listener added and the request posted
FetchRedditViaExtension ==
  /\ page = NoPage
  /\ page' = [NoPage EXCEPT !.requestId = LimenRequestId(1),
                            !.promise = "pending",
                            !.timer = "armed",
                            !.listening = TRUE]
  /\ UNCHANGED <<firstVars, uuid, other, tab, script, worker>>

\* a message event of the window is dispatched; handleMessage runs when it
\* is still a listener
WindowMessage ==
  /\ page # NoPage
  /\ Len(page.log) < MaxEvents
  /\ \E event \in PageEvents :
       page' = [(IF page.listening THEN handleMessage(page, event) ELSE page)
                  EXCEPT !.log = Append(page.log, event)]
  /\ UNCHANGED <<firstVars, uuid, other, tab, script, worker>>

\* EXTENSION_TIMEOUT_MS have passed since setTimeout: the callback runs
\* unless clearTimeout came first
TimeoutElapses ==
  /\ page # NoPage
  /\ TimeoutElapsed \notin {page.log[n] : n \in 1..Len(page.log)}
  /\ page' = [(IF page.timer = "armed"
               THEN reject([page EXCEPT !.timer = "fired",
                                        !.listening = FALSE],
                           DidNotRespond)
               ELSE page)
                EXCEPT !.log = Append(page.log, TimeoutElapsed)]
  /\ UNCHANGED <<firstVars, uuid, other, tab, script, worker>>

PageInit == InitWith({NotAnArray}, {<<>>}) /\ other = NotStarted

PageNext == FetchRedditViaExtension \/ WindowMessage \/ TimeoutElapses

PageSpec == PageInit /\ [][PageNext]_vars

(***************************************************************************)
(* The content script                                                      *)
(*                                                                         *)
(* The script keeps no state of its own; the model records the message     *)
(* events its listener got, the messages it gave chrome.runtime            *)
(* .sendMessage, the calls of their callbacks and the messages it posted   *)
(* to the window.                                                          *)
(***************************************************************************)

LIMEN_REQUEST_TYPE == "LIMEN_FETCH_REDDIT"

LIMEN_RESPONSE_TYPE == "LIMEN_FETCH_REDDIT_RESULT"

BridgeUnavailable ==
  "Extension bridge is unavailable. Reload the extension and this page, then try again."

UnexpectedResponse == "Unexpected extension response."

\* the response argument of the callback when there is none
NoResponse ==
  [present |-> FALSE, requestId |-> NotAString, ok |-> "none", payload |-> "",
   error |-> "", status |-> NotANumber]

\* a response object of the background worker
Response(requestId, ok, payload, error, status) ==
  [present |-> TRUE, requestId |-> requestId, ok |-> ok, payload |-> payload,
   error |-> error, status |-> status]

\* the message posted to the window
ResultMessage(requestId, ok, payload, error, status) ==
  [type |-> LIMEN_RESPONSE_TYPE, requestId |-> requestId, ok |-> ok,
   payload |-> payload, error |-> error, status |-> status]

\* the listener of the window's message events: what it adds to the
\* messages given to chrome.runtime.sendMessage
messageListener(event) ==
  IF event.source # "window" THEN <<>>
  ELSE
    LET data == event.data IN
    IF ~data.obj \/ data.type # LIMEN_REQUEST_TYPE THEN <<>>
    ELSE
      LET requestId == IF IsString(data.requestId) THEN data.requestId ELSE <<>>
          url == IF IsString(data.url) THEN data.url ELSE <<>>
      IN IF requestId = <<>> \/ url = <<>> THEN <<>>
         ELSE <<[type |-> "FETCH_REDDIT_POST", requestId |-> requestId,
                 url |-> url]>>

\* responseCallback without the test of the response's requestId
responseCallback_NoIdTest(requestId, lastError, response) ==
  IF lastError
  THEN ResultMessage(requestId, FALSE, "", BridgeUnavailable, NotANumber)
  ELSE IF ~response.present
  THEN ResultMessage(requestId, FALSE, "", UnexpectedResponse, NotANumber)
  ELSE ResultMessage(requestId, response.ok = "true", response.payload,
                     response.error, response.status)

\* the callback given to chrome.runtime.sendMessage: the message it posts
responseCallback(requestId, lastError, response) ==
  IF lastError
  THEN ResultMessage(requestId, FALSE, "", BridgeUnavailable, NotANumber)
  ELSE IF ~response.present \/ response.requestId # requestId
  THEN ResultMessage(requestId, FALSE, "", UnexpectedResponse, NotANumber)
  ELSE ResultMessage(requestId, response.ok = "true", response.payload,
                     response.error, response.status)

\* greatest number of message events the content script gets
MaxScriptEvents == 2

\* a URL string, and a string of whitespace
PostUrl == <<"r", "/", "x">>

\* data of the page's messages
ScriptData ==
  {[Data(LIMEN_REQUEST_TYPE, id, "none", "", "") EXCEPT !.url = url] :
     id \in {LimenRequestId(1), LimenRequestId(2), <<>>, NotAString},
     url \in {PostUrl, <<" ">>, <<>>, NotAString}}
  \cup {Data(LIMEN_RESPONSE_TYPE, LimenRequestId(1), "true", "tree", ""),
        NotAnObject}

\* the message events of the content script's window
ScriptEvents ==
  {[source |-> "window", data |-> data] : data \in ScriptData}
  \cup {[source |-> "frame",
         data |-> [Data(LIMEN_REQUEST_TYPE, LimenRequestId(1), "none", "", "")
                     EXCEPT !.url = PostUrl]]}

\* what chrome gives the callback: chrome.runtime.lastError is set, or a
\* response
CallbackArguments ==
  {[lastError |-> TRUE, response |-> NoResponse],
   [lastError |-> FALSE, response |-> NoResponse]}
  \cup {[lastError |-> FALSE,
         response |-> Response(id, ok, IF ok = "true" THEN "tree" ELSE "",
                               IF ok = "false" THEN "upstream" ELSE "",
                               IF ok = "false" THEN 502 ELSE NotANumber)] :
          id \in {LimenRequestId(1), LimenRequestId(2), NotAString},
          ok \in {"true", "false", "none"}}

\* a message event of the window reaches the content script
ScriptMessage ==
  /\ Len(script.log) < MaxScriptEvents
  /\ \E event \in ScriptEvents :
       script' = [script EXCEPT !.log = Append(@, event),
                                !.forwarded = @ \o messageListener(event)]
  /\ UNCHANGED <<firstVars, uuid, other, tab, page, worker>>

\* chrome calls the callback of a forwarded message, once
ScriptCallback ==
  /\ \E k \in 1..Len(script.forwarded), args \in CallbackArguments :
       /\ \A n \in 1..Len(script.calls) : script.calls[n].of # k
       /\ script' =
            [script EXCEPT
               !.calls = Append(@, [of |-> k, args |-> args]),
               !.posted = Append(@, responseCallback(
                                      script.forwarded[k].requestId,
                                      args.lastError, args.response))]
  /\ UNCHANGED <<firstVars, uuid, other, tab, page, worker>>

ScriptInit == InitWith({NotAnArray}, {<<>>}) /\ other = NotStarted

ScriptNext == ScriptMessage \/ ScriptCallback

ScriptSpec == ScriptInit /\ [][ScriptNext]_vars

(***************************************************************************)
(* The message listener of the background worker                           *)
(*                                                                         *)
(* Each message with the type FETCH_REDDIT_POST starts one run of the      *)
(* listener's async function, with its own requestId, url and              *)
(* sendResponse; the model records the messages, and for each the response *)
(* given to its sendResponse.                                              *)
(***************************************************************************)

\* a message that is null or undefined
NoMessage ==
  [obj |-> FALSE, type |-> "", requestId |-> NotAString, url |-> NotAString]

\* a message object
Message(type, requestId, url) ==
  [obj |-> TRUE, type |-> type, requestId |-> requestId, url |-> url]

\* no error
NoError == [name |-> "", message |-> "", status |-> NotANumber]

\* new ValidationError(message): its status is 400
ValidationError(message) ==
  [name |-> "ValidationError", message |-> message, status |-> 400]

\* new UpstreamError(message, status)
UpstreamError(message, status) ==
  [name |-> "UpstreamError", message |-> message, status |-> status]

\* an error that is neither: the TypeError of the nested pass, the
\* SyntaxError of response.json()
OtherError(name, message) ==
  [name |-> name, message |-> message, status |-> NotANumber]

\* what `await fetchRedditPayload(url)` comes to: a payload, the
\* ValidationError of normalizeRedditUrl, an UpstreamError of
\* fetchRedditListing or of the test of postData, or another error
PayloadOutcomes ==
  {[threw |-> FALSE, payload |-> "tree", error |-> NoError]}
  \cup {[threw |-> TRUE, payload |-> "", error |-> e] :
          e \in {ValidationError("Only Reddit post links are supported."),
                 UpstreamError("Reddit denied the request.", 403),
                 UpstreamError("Could not reach Reddit from this browser.", 502),
                 UpstreamError("Could not parse this Reddit post.", 422),
                 OtherError("TypeError", "Cannot read properties of null")}}

\* the throw of the listener's async function for a blank url
BlankUrl ==
  [threw |-> TRUE, payload |-> "",
   error |-> ValidationError("Paste a Reddit URL to continue.")]

\* the response of the catch block
ErrorResponse(requestId, error) ==
  Response(requestId, "false", "", error.message,
           IF error.name \in {"ValidationError", "UpstreamError"}
           THEN error.status
           ELSE 500)

\* the requestId and the url the listener reads from a message
ReadRequestId(message) ==
  IF IsString(message.requestId) THEN message.requestId ELSE <<>>

ReadUrl(message) == IF IsString(message.url) THEN message.url ELSE <<>>

\* SendResponse with one requestId variable for all the runs
SendResponse_SharedId(calls, k, outcome) ==
  LET requestId == ReadRequestId(calls[Len(calls)].message) IN
  IF outcome.threw THEN ErrorResponse(requestId, outcome.error)
  ELSE Response(requestId, "true", outcome.payload, "", NotANumber)

\* the response the k-th run gives its sendResponse when fetchRedditPayload
\* has come to the outcome
SendResponse(calls, k, outcome) ==
  LET requestId == ReadRequestId(calls[k].message) IN
  IF outcome.threw THEN ErrorResponse(requestId, outcome.error)
  ELSE Response(requestId, "true", outcome.payload, "", NotANumber)

\* greatest number of messages the background worker gets
MaxWorkerMessages == 2

\* the messages the background worker gets
WorkerMessages ==
  {NoMessage}
  \cup {Message(type, requestId, url) :
          type \in {"FETCH_REDDIT_POST", "PING"},
          requestId \in {LimenRequestId(1), LimenRequestId(2), NotAString},
          url \in {PostUrl, <<" ">>, NotAString}}

\* chrome.runtime.onMessage fires: the listener returns at once for a
\* message of another type; otherwise the async function starts, and
\* answers before its first await when the url is blank
WorkerMessage ==
  /\ Len(worker.calls) < MaxWorkerMessages
  /\ \E message \in WorkerMessages :
       LET k == Len(worker.calls) + 1
           run(state) == Append(worker.calls,
                                [message |-> message, state |-> state])
       IN IF ~message.obj \/ message.type # "FETCH_REDDIT_POST"
          THEN worker' = [worker EXCEPT !.calls = run("ignored")]
          ELSE IF Trim(ReadUrl(message)) = <<>>
          THEN worker' =
                 [calls |-> run("answered"),
                  responses |->
                    Append(worker.responses,
                           [to |-> k, outcome |-> BlankUrl,
                            response |->
                              SendResponse(run("answered"), k, BlankUrl)])]
          ELSE worker' = [worker EXCEPT !.calls = run("awaiting")]
  /\ UNCHANGED <<firstVars, uuid, other, tab, page, script>>

\* fetchRedditPayload settles for one of the runs and the run gives its
\* response to its sendResponse
WorkerSettles ==
  /\ \E k \in 1..Len(worker.calls), outcome \in PayloadOutcomes :
       /\ worker.calls[k].state = "awaiting"
       /\ worker' =
            [calls |-> [worker.calls EXCEPT ![k].state = "answered"],
             responses |->
               Append(worker.responses,
                      [to |-> k, outcome |-> outcome,
                       response |-> SendResponse(worker.calls, k, outcome)])]
  /\ UNCHANGED <<firstVars, uuid, other, tab, page, script>>

WorkerInit == InitWith({NotAnArray}, {<<>>}) /\ other = NotStarted

WorkerNext == WorkerMessage \/ WorkerSettles

WorkerSpec == WorkerInit /\ [][WorkerNext]_vars

(***************************************************************************)
(* Trees in the heap                                                       *)
(***************************************************************************)

RECURSIVE PreOrder(_, _)
\* the nodes of the forest under roots, in depth-first pre-order
PreOrder(roots, h) ==
  IF roots = <<>> THEN <<>>
  ELSE <<Head(roots)>> \o PreOrder(h[Head(roots)].replies, h)
                       \o PreOrder(Tail(roots), h)

\* the set of the nodes of the forest under roots
NodesOf(roots, h) == {PreOrder(roots, h)[n] : n \in 1..Len(PreOrder(roots, h))}

IsPrefix(s, t) == Len(s) <= Len(t) /\ SubSeq(t, 1, Len(s)) = s

\* the result of the nested pass on the listing of this reconstruction
Nested == parseComments(listing, 0, ParseState(<<>>, 0))

AfterNested == pc \in {"ResolvingContinuations", "Splicing", "Done"}

\* a continuation request that failed: fetch rejected or timed out, the
\* status was not a success, or the body was malformed
BatchFailed(req) == ~req.extracted

(***************************************************************************)
(* C1  When the reconstruction is done, the tree it returns (the nodes of  *)
(* the nested pass and of every spliced sub-forest, with their in-batch    *)
(* descendants) has at most MAX_COMMENTS nodes.                            *)
(***************************************************************************)
C1_TotalNodesBounded ==
  pc = "Done" => Len(PreOrder(comments, heap)) <= MAX_COMMENTS

(***************************************************************************)
(* C2  In every state after the nested pass has returned, every node the   *)
(* nested pass created is in the heap unchanged but for its replies, which *)
(* have its nested-pass replies as a prefix, and the top-level sequence    *)
(* has the nested-pass top level as a prefix.                              *)
(***************************************************************************)
C2_NestedNodesPersist ==
  AfterNested =>
    /\ IsPrefix(Nested.nodes, comments)
    /\ Len(Nested.st.heap) <= Len(heap)
    /\ \A n \in 1..Len(Nested.st.heap) :
         /\ [heap[n] EXCEPT !.replies = <<>>]
              = [Nested.st.heap[n] EXCEPT !.replies = <<>>]
         /\ IsPrefix(Nested.st.heap[n].replies, heap[n].replies)

\* the splicing was cut short by an exception after it had appended a
\* sub-forest to the replies of a nested-pass node
C2_Witness ==
  /\ pc = "Done"
  /\ caught = "splice"
  /\ taken >= 1
  /\ \E n \in 1..Len(Nested.st.heap) :
       Len(heap[n].replies) > Len(Nested.st.heap[n].replies)

(***************************************************************************)
(* C3  If every continuation batch failed, the reconstruction has not      *)
(* failed, and when it is done its tree is exactly the tree of the nested  *)
(* pass.                                                                   *)
(***************************************************************************)
C3_AllBatchesFail ==
  (requests # <<>> /\ \A n \in 1..Len(requests) : BatchFailed(requests[n])) =>
    /\ pc # "Failed"
    /\ pc = "Done" => comments = Nested.nodes /\ heap = Nested.st.heap

\* two batches were requested, both failed, in different ways, and the
\* reconstruction is done with a tree that is not empty
C3_Witness ==
  /\ pc = "Done"
  /\ Len(requests) = 2
  /\ requests[1].outcome = "rejected"
  /\ requests[2].outcome = "ok" /\ ~requests[2].extracted
  /\ comments # <<>>

(***************************************************************************)
(* C4  Once the nested pass has returned, no step makes the reconstruction *)
(* fail, and a step that enters the catch block of the orchestrator ends   *)
(* in Done with the tree as it was.                                        *)
(***************************************************************************)
C4_ContinuationErrorsSwallowed ==
  [][AfterNested =>
       /\ pc' # "Failed"
       /\ (caught = "no" /\ caught' # "no") =>
            pc' = "Done" /\ comments' = comments /\ heap' = heap]_vars

\* buildTreeFromFlat threw, the catch block was entered and the
\* reconstruction is done with the tree of the nested pass
C4_Witness ==
  /\ pc = "Done"
  /\ caught = "build"
  /\ comments # <<>>
  /\ comments = Nested.nodes

(***************************************************************************)
(* C5  No node of the tree, at any level and from either source, has a     *)
(* body that is empty or only whitespace.                                  *)
(***************************************************************************)
C5_NoBlankBody ==
  AfterNested =>
    \A n \in NodesOf(comments, heap) : Trim(heap[n].body) # <<>>

\* the listing and the continuation responses both held an entry with a
\* blank body, and the tree is done with nodes of both sources
C5_Witness ==
  /\ pc = "Done"
  /\ taken >= 1
  /\ \E n \in 1..Len(allThings) :
       ~allThings[n].nul /\ Trim(allThings[n].body) = <<>>
  /\ \E n \in 1..Len(listing.items) :
       /\ listing.items[n].kind = "t1"
       /\ Trim(listing.items[n].body) = <<>>
  /\ Len(PreOrder(comments, heap)) > Len(Nested.st.heap)
  /\ Nested.nodes # <<>>

Max(x, y) == IF x >= y THEN x ELSE y

RECURSIVE Height(_, _)
\* the greatest depth of a node of the forest under roots, the roots being
\* at depth 0; -1 for the empty forest
Height(roots, h) ==
  IF roots = <<>> THEN 0 - 1
  ELSE Max(1 + Height(h[Head(roots)].replies, h), Height(Tail(roots), h))

\* the body of an entry as the parser and the builder read it
BodyOf(entry) == IF IsString(entry.body) THEN entry.body ELSE <<>>

\* an entry from which the parser and the builder make a node
IsKept(entry) ==
  ~entry.nul /\ entry.kind = "t1" /\ entry.hasData /\ Trim(BodyOf(entry)) # <<>>

\* the entries of a children value from which a node is made
KeptOf(children) ==
  IF children.arr THEN SelectSeq(children.items, IsKept) ELSE <<>>

RECURSIVE InputHeight(_)
\* the greatest depth of a kept entry in a listing, -1 when there is none
InputHeight(children) ==
  LET kept == KeptOf(children)
      below == {1 + InputHeight(kept[n].replies) : n \in 1..Len(kept)}
  IN IF kept = <<>> THEN 0 - 1
     ELSE CHOOSE m \in below : \A x \in below : x <= m

ParsedOk == pc \in {"ResolvingContinuations", "Done"}

(***************************************************************************)
(* C6  Every node made by the nested pass is at depth at most              *)
(* MAX_COMMENT_DEPTH, the top level being depth 0, and the parser called   *)
(* on the listing with a depth above MAX_COMMENT_DEPTH returns the empty   *)
(* sequence.                                                               *)
(***************************************************************************)
C6_NestedDepthBounded ==
  /\ ParsedOk => Height(comments, heap) <= MAX_COMMENT_DEPTH
  /\ parseComments(listing, MAX_COMMENT_DEPTH + 1, ParseState(<<>>, 0)).nodes
       = <<>>

\* the listing is deeper than the limit, the count limit was not reached,
\* and the tree reaches the depth limit exactly
C6_Witness ==
  /\ ParsedOk
  /\ InputHeight(listing) > MAX_COMMENT_DEPTH
  /\ Height(comments, heap) = MAX_COMMENT_DEPTH
  /\ Len(heap) < MAX_COMMENTS

\* the step is an iteration of the loop over byParent that did not throw
SpliceStepTaken == pc = "Splicing" /\ taken' = taken + 1

\* the entry of byParent that the next iteration of the loop takes
NextPair == byParent[taken + 1]

\* node n of forest (roots, h) carries the comment-tagged identifier ref
HasCommentRef(h, n, ref) == T1(h[n].id) = ref

\* some node of the forest (roots, h) carries ref, comment- or post-tagged
Matches(roots, h, ref) ==
  \E n \in NodesOf(roots, h) : T1(h[n].id) = ref \/ T3(h[n].id) = ref

\* the first node of the forest, in depth-first pre-order, that carries the
\* comment-tagged identifier ref; 0 when there is none
FirstWithCommentRef(roots, h, ref) ==
  LET po == PreOrder(roots, h)
      at == {m \in 1..Len(po) : HasCommentRef(h, po[m], ref)}
  IN IF at = {} THEN 0
     ELSE po[CHOOSE m \in at : \A x \in at : m <= x]

(***************************************************************************)
(* C7 as stated  When an iteration splices a sub-forest whose parent       *)
(* reference is the comment-tagged identifier of a node n of the tree, the *)
(* search returns true and the replies of n become its previous replies    *)
(* followed by the sub-forest: for every such node n.                      *)
(***************************************************************************)
C7_AnyNodeWithRef ==
  [][SpliceStepTaken =>
       \A n \in NodesOf(comments, heap) :
         HasCommentRef(heap, n, NextPair.parentId) =>
           /\ insertIntoTree(comments, NextPair.parentId, NextPair.nodes,
                             heap).found
           /\ heap'[n].replies = heap[n].replies \o NextPair.nodes]_vars

(***************************************************************************)
(* C7 amended  The same for the node n that is the first, in depth-first   *)
(* pre-order, to carry the comment-tagged identifier equal to the parent   *)
(* reference.                                                              *)
(***************************************************************************)
C7_FirstNodeWithRef ==
  [][SpliceStepTaken =>
       LET n == FirstWithCommentRef(comments, heap, NextPair.parentId) IN
       n # 0 =>
         /\ insertIntoTree(comments, NextPair.parentId, NextPair.nodes,
                           heap).found
         /\ heap'[n].replies = heap[n].replies \o NextPair.nodes]_vars

\* the scenario of the claim: the tree is A -> [B], the sub-forest [C, D] was
\* keyed under B, and after the splice the replies of B are [C, D]
C7_Witness ==
  /\ pc = "Done" /\ taken = 1 /\ caught = "no"
  /\ Len(comments) = 1
  /\ LET nodeA == heap[comments[1]] IN
     /\ Len(nodeA.replies) = 1
     /\ LET nodeB == heap[nodeA.replies[1]] IN
        /\ byParent[1].parentId = T1(nodeB.id)
        /\ Len(byParent[1].nodes) = 2
        /\ nodeB.replies = byParent[1].nodes
        /\ heap[nodeB.replies[1]].id = Id("c")
        /\ heap[nodeB.replies[2]].id = Id("d")

(***************************************************************************)
(* C8  When an iteration splices a sub-forest keyed under the thread's     *)
(* post-tagged root reference and no node of the tree carries that         *)
(* reference, the sub-forest is appended, in its order, to the end of the  *)
(* top-level sequence, and no replies list changes.                        *)
(***************************************************************************)
C8_RootLevelSplice ==
  [][(/\ SpliceStepTaken
      /\ NextPair.parentId = T3(postId)
      /\ ~Matches(comments, heap, NextPair.parentId)) =>
       /\ comments' = comments \o NextPair.nodes
       /\ heap' = heap]_vars

\* a sub-forest of two nodes keyed under the root reference has been put
\* after the top-level nodes of the nested pass
C8_Witness ==
  /\ pc = "Done" /\ taken >= 1 /\ caught = "no"
  /\ byParent[taken].parentId = T3(postId)
  /\ Len(byParent[taken].nodes) = 2
  /\ Nested.nodes # <<>>
  /\ comments = Nested.nodes \o byParent[taken].nodes

\* the tree and the heap right after buildTreeFromFlat returned
Built ==
  [comments |-> Nested.nodes,
   heap |-> buildTreeFromFlat(allThings, Nested.st.heap, Nested.st.uuid).heap]

RECURSIVE Replay(_)
\* the tree after the first n iterations of the loop over byParent
Replay(n) ==
  IF n = 0 THEN Built ELSE SplicePair(Replay(n - 1), byParent[n], postId)

\* a sub-forest that has no place in tree t: its parent reference is carried
\* by no node and is not the thread's root reference
Unattachable(t, pair) ==
  ~Matches(t.comments, t.heap, pair.parentId) /\ pair.parentId # T3(postId)

(***************************************************************************)
(* C9  An iteration that takes a sub-forest whose parent reference is      *)
(* carried by no node of the tree and is not the thread's root reference   *)
(* leaves the tree as it was, raises nothing and goes on to the next       *)
(* entry; and in every later state none of its nodes is in the tree.       *)
(***************************************************************************)
C9_UnattachableDropped ==
  /\ [][(SpliceStepTaken
         /\ Unattachable([comments |-> comments, heap |-> heap], NextPair)) =>
          /\ comments' = comments
          /\ heap' = heap
          /\ caught' = caught
          /\ pc' = IF taken + 1 < Len(byParent) THEN "Splicing" ELSE "Done"]_vars
  /\ [](pc \in {"Splicing", "Done"} =>
          \A n \in 1..taken :
            Unattachable(Replay(n - 1), byParent[n]) =>
              \A m \in 1..Len(byParent[n].nodes) :
                byParent[n].nodes[m] \notin NodesOf(comments, heap))

\* the first sub-forest was dropped, a later one was spliced, and the
\* reconstruction is done
C9_Witness ==
  /\ pc = "Done" /\ taken = 2 /\ caught = "no"
  /\ Unattachable(Replay(0), byParent[1])
  /\ ~Unattachable(Replay(1), byParent[2])
  /\ Len(PreOrder(comments, heap)) > Len(Nested.st.heap)

RECURSIVE InOrder(_, _, _)
\* the nodes are, in order, made from the first kept entries of children,
\* and so are their replies from the replies of these entries
InOrder(nodes, children, h) ==
  LET kept == KeptOf(children) IN
  /\ Len(nodes) <= Len(kept)
  /\ \A n \in 1..Len(nodes) :
       /\ h[nodes[n]].body = kept[n].body
       /\ IsString(kept[n].id) => h[nodes[n]].id = kept[n].id
       /\ InOrder(h[nodes[n]].replies, kept[n].replies, h)

(***************************************************************************)
(* C10  At every level of the tree of the nested pass the nodes are made,  *)
(* in order, from the kept entries of the input listing at that level: no  *)
(* sibling is reordered, entries are only left out.                        *)
(***************************************************************************)
C10_NestedOrderPreserved ==
  ParsedOk => InOrder(comments, listing, heap)

\* two top-level nodes with different ids, the first of which has a reply
\* made from an entry that came after a discarded entry
C10_Witness ==
  /\ ParsedOk
  /\ Len(comments) = 2
  /\ heap[comments[1]].id # heap[comments[2]].id
  /\ Len(heap[comments[1]].replies) = 1
  /\ Len(listing.items[1].replies.items) = 2
  /\ ~IsKept(listing.items[1].replies.items[1])

\* the state right after buildTreeFromFlat returned to the orchestrator
JustBuilt ==
  pc \in {"Splicing", "Done"} /\ taken = 0 /\ caught = "no" /\ allThings # <<>>

\* the nodes buildTreeFromFlat constructed, in the order of their entries
BuiltNodes == (Len(Nested.st.heap) + 1)..Len(heap)

\* the first node buildTreeFromFlat constructed with the id of node n
FirstWithId(n) ==
  CHOOSE x \in BuiltNodes :
    /\ heap[x].id = heap[n].id
    /\ \A y \in BuiltNodes : heap[y].id = heap[n].id => x <= y

\* every set of siblings buildTreeFromFlat made: the nodes grouped under an
\* external parent reference, and the replies of a node of the batch
SiblingLists ==
  {byParent[g].nodes : g \in 1..Len(byParent)}
    \cup {heap[n].replies : n \in BuiltNodes}

(***************************************************************************)
(* C11 (as stated)  Right after buildTreeFromFlat, the nodes grouped under *)
(* each external parent reference and the replies of each node of the      *)
(* batch are in the order in which their entries arrived.                  *)
(***************************************************************************)
C11_ArrivalOrder ==
  JustBuilt =>
    \A sibs \in SiblingLists :
      \A m, n \in 1..Len(sibs) : m < n => sibs[m] < sibs[n]

(***************************************************************************)
(* C11 (amended)  Right after buildTreeFromFlat, the nodes grouped under   *)
(* each external parent reference and the replies of each node of the      *)
(* batch are in the order in which the first entry with their id arrived:  *)
(* an entry that repeats the id of an earlier entry replaces its node and  *)
(* takes its place.                                                        *)
(***************************************************************************)
C11_ArrivalOrderOfFirstId ==
  JustBuilt =>
    \A sibs \in SiblingLists :
      \A m, n \in 1..Len(sibs) :
        m < n => FirstWithId(sibs[m]) < FirstWithId(sibs[n])

\* two nodes were grouped under one parent reference, the first of them
\* made from an entry that arrived after the entry of the second and
\* repeated an earlier id
C11_Witness ==
  /\ pc = "Splicing" /\ taken = 0
  /\ \E g \in 1..Len(byParent) :
       /\ Len(byParent[g].nodes) = 2
       /\ byParent[g].nodes[1] > byParent[g].nodes[2]
       /\ FirstWithId(byParent[g].nodes[1]) < byParent[g].nodes[2]

\* the first node of the forest, in depth-first pre-order, that the test of
\* insertIntoTree accepts for ref; 0 when there is none
FirstMatching(roots, h, ref) ==
  LET po == PreOrder(roots, h)
      at == {m \in 1..Len(po) :
               T1(h[po[m]].id) = ref \/ T3(h[po[m]].id) = ref}
  IN IF at = {} THEN 0
     ELSE po[CHOOSE m \in at : \A x \in at : m <= x]

\* the entry of byParent that the loop took last
LastPair == byParent[taken]

\* the node that the last iteration of the loop attached its sub-forest to,
\* 0 when it attached it to no node
LastTarget ==
  FirstMatching(Replay(taken - 1).comments, Replay(taken - 1).heap,
                LastPair.parentId)

\* the replies of that node before the last iteration of the loop
RepliesBefore == Replay(taken - 1).heap[LastTarget].replies

\* the loop has spliced a sub-forest under a node
SplicedUnderNode ==
  /\ pc \in {"Splicing", "Done"} /\ taken >= 1 /\ caught = "no"
  /\ LastTarget # 0

(***************************************************************************)
(* C12  Splicing is not idempotent: when a sub-forest has been spliced     *)
(* under a node once, a second call of insertIntoTree with the same parent *)
(* reference and the same nodes returns true and leaves the replies of     *)
(* that node as its replies before the first call followed by the nodes    *)
(* twice; and every step that splices again appends the nodes once more.   *)
(***************************************************************************)
C12_SpliceNotIdempotent ==
  /\ []((SplicedUnderNode
          /\ heap[LastTarget].replies = RepliesBefore \o LastPair.nodes) =>
         LET r == insertIntoTree(comments, LastPair.parentId, LastPair.nodes,
                                 heap)
         IN /\ r.found
            /\ r.heap[LastTarget].replies =
                 RepliesBefore \o LastPair.nodes \o LastPair.nodes)
  /\ [][(SplicedUnderNode /\ taken' = taken /\ pc' = pc /\ heap' # heap) =>
          heap'[LastTarget].replies =
            heap[LastTarget].replies \o LastPair.nodes]_vars

\* a sub-forest was spliced twice under a node that had replies: the node
\* has its nodes twice
C12_Witness ==
  /\ SplicedUnderNode
  /\ pc = "Done"
  /\ RepliesBefore # <<>>
  /\ heap[LastTarget].replies =
       RepliesBefore \o LastPair.nodes \o LastPair.nodes

\* the place of a phase in the order of the phases; a reconstruction that
\* failed in the nested pass has ended
PhaseRank(phase) ==
  CASE phase = "ParsingNested" -> 0
    [] phase = "ResolvingContinuations" -> 1
    [] phase = "Splicing" -> 2
    [] phase = "Done" -> 3
    [] phase = "Failed" -> 3

(***************************************************************************)
(* C13  The phase of a reconstruction never moves backwards in the order   *)
(* ParsingNested, ResolvingContinuations, Splicing, Done; once the nested  *)
(* pass has returned, its stub list and the child ids are not computed     *)
(* again; no continuation request is issued once the builder has been      *)
(* called, and nothing is spliced before that; the resolving phase is      *)
(* entered only with child ids and a post id, and without stubs no         *)
(* continuation request is ever issued.                                    *)
(***************************************************************************)
C13_PhaseOrder ==
  /\ [][/\ PhaseRank(pc) <= PhaseRank(pc')
        /\ pc # "ParsingNested" =>
             (moreStubs' = moreStubs /\ childIds' = childIds)
        /\ pc \in {"Splicing", "Done", "Failed"} =>
             (requests' = requests /\ allThings' = allThings)]_vars
  /\ [](pc \in {"ParsingNested", "ResolvingContinuations"} =>
          (taken = 0 /\ byParent = <<>>))
  /\ [](pc = "ResolvingContinuations" =>
          (comments = Nested.nodes /\ heap = Nested.st.heap
           /\ childIds # <<>> /\ postId # <<>>))
  /\ [](moreStubs = <<>> => requests = <<>>)

\* a reconstruction went through every phase: it issued two continuation
\* requests, built sub-forests and spliced one of them
C13_Witness ==
  /\ pc = "Done"
  /\ Len(requests) = 2
  /\ taken >= 1
  /\ Len(PreOrder(comments, heap)) > Len(Nested.st.heap)

\* the identifier was drawn from crypto.randomUUID
IsRandomId(id) ==
  Len(id) >= 5 /\ SubSeq(id, 1, 5) = <<"u", "u", "i", "d", "-">>

RECURSIVE TreeValue(_, _)
\* the forest under roots as a value, without the addresses of its nodes;
\* an identifier drawn from crypto.randomUUID is random in every run, and
\* two of them are taken as the same
TreeValue(roots, h) ==
  [n \in 1..Len(roots) |->
     LET node == h[roots[n]] IN
     [id |-> IF IsRandomId(node.id) THEN <<"u", "u", "i", "d">> ELSE node.id,
      author |-> node.author,
      body |-> node.body,
      score |-> node.score,
      createdUtc |-> node.createdUtc,
      replies |-> TreeValue(node.replies, h)]]

RECURSIVE SpliceAll(_, _, _, _, _)
\* the tree t after the iterations k..n of the loop over pairs
SpliceAll(t, pairs, k, n, post) ==
  IF k > n THEN t
  ELSE SpliceAll(SplicePair(t, pairs[k], post), pairs, k + 1, n, post)

\* the tree of a call of fetchRedditPayload that runs alone on listing L
\* and post id P, extracts things from its continuation responses and ends
\* after n iterations of its loop over byParent
AloneTree(L, P, things, n) ==
  LET nested == parseComments(L, 0, ParseState(<<>>, 0))
      built == buildTreeFromFlat(things, nested.st.heap, nested.st.uuid)
      t == SpliceAll([comments |-> nested.nodes, heap |-> built.heap],
                     built.byParent, 1, n, P)
  IN TreeValue(t.comments, t.heap)

(***************************************************************************)
(* C14  Of two calls of fetchRedditPayload interleaved at their awaits,    *)
(* each returns the tree it returns when it runs alone on the same listing *)
(* and the same continuation responses (identifiers drawn from             *)
(* crypto.randomUUID apart).                                               *)
(***************************************************************************)
C14_ConcurrentCallsIndependent ==
  /\ pc = "Done" =>
       TreeValue(comments, heap) = AloneTree(listing, postId, allThings, taken)
  /\ other.pc = "Done" =>
       TreeValue(other.comments, other.heap) =
         AloneTree(other.listing, other.postId, other.allThings, other.taken)

\* both calls are done and both spliced a sub-forest; the first call ran
\* its nested pass between the nested pass and the builder of the second:
\* the second drew the first and the third identifier from
\* crypto.randomUUID, the first call the second
C14_Witness ==
  /\ pc = "Done" /\ other.pc = "Done"
  /\ taken >= 1 /\ other.taken >= 1
  /\ caught = "no" /\ other.caught = "no"
  /\ \E n \in 1..Len(heap) : heap[n].id = RandomUUID(2)
  /\ \E n \in 1..Len(other.heap) : other.heap[n].id = RandomUUID(1)
  /\ \E n \in 1..Len(other.heap) : other.heap[n].id = RandomUUID(3)
  /\ Len(PreOrder(comments, heap)) > 1
  /\ Len(PreOrder(other.comments, other.heap)) > 1

RECURSIVE EntryIds(_)
\* the ids of the comment entries of a listing, at every level
EntryIds(children) ==
  IF ~children.arr \/ children.items = <<>> THEN <<>>
  ELSE LET e == Head(children.items) IN
       (IF ~e.nul /\ e.kind = "t1" /\ e.hasData
        THEN <<e.id>> \o EntryIds(e.replies)
        ELSE <<>>)
       \o EntryIds(Arr(Tail(children.items)))

\* no two elements of the sequence are equal
PairwiseDistinct(s) == \A m, n \in 1..Len(s) : m # n => s[m] # s[n]

\* the ids of the nodes of the forest under roots, in pre-order
IdsOf(roots, h) ==
  [n \in 1..Len(PreOrder(roots, h)) |-> h[PreOrder(roots, h)[n]].id]

(***************************************************************************)
(* C15  When the comment entries of the nested listing have pairwise       *)
(* distinct ids, no two nodes of the tree of a finished reconstruction     *)
(* have the same id, whatever the continuation responses held.             *)
(***************************************************************************)
C15_UniqueIds ==
  (pc = "Done" /\ PairwiseDistinct(EntryIds(listing))) =>
    PairwiseDistinct(IdsOf(comments, heap))

\* the set of the elements of a sequence
Range(s) == {s[n] : n \in 1..Len(s)}

RECURSIVE Reach(_, _, _)
\* the nodes reached from the set S of nodes by at most k steps along
\* replies
Reach(S, h, k) ==
  IF k = 0 THEN S
  ELSE Reach(S \cup UNION {Range(h[n].replies) : n \in S}, h, k - 1)

\* the nodes below node n: its replies, their replies, and so on
Descendants(n, h) == Reach(Range(h[n].replies), h, Len(h))

RECURSIVE Flatten(_)
\* the concatenation of a sequence of sequences
Flatten(ss) == IF ss = <<>> THEN <<>> ELSE Head(ss) \o Flatten(Tail(ss))

\* the roots of the result: the top level of the tree, and the roots of the
\* sub-forests that the loop over byParent has not taken yet
ResultRoots ==
  comments \o Flatten([g \in 1..(Len(byParent) - taken) |->
                         byParent[taken + g].nodes])

\* (roots, h) is a forest: no node is twice in a list, every node is in
\* exactly one list (the roots or the replies of one node), and no node is
\* below itself
IsForest(roots, h) ==
  LET nodes == Reach(Range(roots), h, Len(h))
      Lists == <<roots>> \o [n \in 1..Len(h) |->
                               IF n \in nodes THEN h[n].replies ELSE <<>>]
  IN /\ \A k \in 1..Len(Lists) : PairwiseDistinct(Lists[k])
     /\ \A x \in nodes :
          Cardinality({k \in 1..Len(Lists) : x \in Range(Lists[k])}) = 1
     /\ \A x \in nodes : x \notin Descendants(x, h)

(***************************************************************************)
(* C16  In every state the tree, together with the sub-forests still to be *)
(* spliced, is a forest: no node is in two replies lists or twice in one   *)
(* list, and no node is below itself, also when entries of the flat batch  *)
(* name themselves or each other as parent.                                *)
(***************************************************************************)
C16_ResultIsForest == IsForest(ResultRoots, heap)

\* entries of the batch named themselves or each other as parent (the heap
\* holds a node below itself), another sub-forest of the batch was spliced,
\* and the reconstruction is done
C16_Witness ==
  /\ pc = "Done" /\ caught = "no" /\ taken >= 1
  /\ \E n \in 1..Len(heap) : n \in Descendants(n, heap)
  /\ Cardinality(Reach(Range(comments), heap, Len(heap)))
       > Len(Nested.st.heap)

RECURSIVE ResolvesToPost(_)
\* the URL is on a Reddit host and has a post id, or it is a Google link
\* whose parameter q or url is such a URL
ResolvesToPost(rawUrl) ==
  /\ rawUrl.raw = "url"
  /\ \/ rawUrl.hostname \in REDDIT_HOSTS /\ getRedditPostId(rawUrl) # <<>>
     \/ /\ rawUrl.hostname \in GOOGLE_REDIRECT_HOSTS
        /\ ResolvesToPost(rawUrl.q) \/ ResolvesToPost(rawUrl.url)

\* the listings of a subreddit
SubredditListings ==
  { <<"h", "o", "t">>, <<"n", "e", "w">>, <<"t", "o", "p">> }

\* /r/{name} or /r/{name}/{listing} on a Reddit host
IsSubredditUrl(rawUrl) ==
  /\ rawUrl.raw = "url" /\ rawUrl.hostname \in REDDIT_HOSTS \ {"redd.it"}
  /\ Len(rawUrl.path) \in {2, 3}
  /\ rawUrl.path[1] = <<"r">>
  /\ Len(rawUrl.path) = 3 => rawUrl.path[3] \in SubredditListings

\* the home page of a Reddit host
IsHomeUrl(rawUrl) ==
  /\ rawUrl.raw = "url" /\ rawUrl.hostname \in REDDIT_HOSTS
  /\ SelectSeq(rawUrl.path, IsNonEmpty) = <<>>

\* /user/{name} on a Reddit host
IsProfileUrl(rawUrl) ==
  /\ rawUrl.raw = "url" /\ rawUrl.hostname \in REDDIT_HOSTS \ {"redd.it"}
  /\ Len(rawUrl.path) = 2
  /\ rawUrl.path[1] = <<"u", "s", "e", "r">>

\* a URL that is neither on a Reddit host nor a Google link
IsNonRedditUrl(rawUrl) ==
  /\ rawUrl.raw = "url"
  /\ rawUrl.hostname \notin REDDIT_HOSTS \cup GOOGLE_REDIRECT_HOSTS

(***************************************************************************)
(* C17  The tab listener calls chrome.tabs.update for a tab update exactly *)
(* when the URL it looks at is an http(s) URL that is, or as a Google link *)
(* carries in q or url, a URL on a Reddit host with a post id; and it      *)
(* never does for a subreddit, home or profile URL of Reddit or for a URL  *)
(* that is not of Reddit.                                                  *)
(***************************************************************************)
C17_RedirectIffPostUrl ==
  /\ tab.updated <=>
       (tab.url.raw = "url" /\ isWebUrl(tab.url) /\ ResolvesToPost(tab.url))
  /\ (\/ IsSubredditUrl(tab.url) \/ IsHomeUrl(tab.url)
      \/ IsProfileUrl(tab.url) \/ IsNonRedditUrl(tab.url)) => ~tab.updated

(***************************************************************************)
(* C18  Whatever the shape of the entries of the listing and of the flat   *)
(* batches, parseComments and buildTreeFromFlat raise no error: the nested *)
(* pass never fails, and buildTreeFromFlat never sends the orchestrator    *)
(* into its catch block.                                                   *)
(***************************************************************************)
C18_NoErrorFromEntryShape == pc # "Failed" /\ caught # "build"

\* the batches of the continuation requests issued so far, in order
Batches == [n \in 1..Len(requests) |-> requests[n].batch]

\* fetchMoreChildren was called and has returned
ResolverReturned ==
  pc \in {"Splicing", "Done"} /\ Len(childIds) > 0 /\ postId # <<>>

(***************************************************************************)
(* C19  Every continuation request carries between 1 and                   *)
(* MORE_CHILDREN_BATCH child ids; the batches requested so far, in order,  *)
(* concatenate to the ids the loop has passed; and when the resolver has   *)
(* returned they concatenate to the whole id list, in ceil(n /             *)
(* MORE_CHILDREN_BATCH) requests for n ids.                                *)
(***************************************************************************)
C19_BatchesPartitionIds ==
  /\ \A n \in 1..Len(requests) :
       Len(requests[n].batch) \in 1..MORE_CHILDREN_BATCH
  /\ Flatten(Batches) = SubSeq(childIds, 1, Min(i, Len(childIds)))
  /\ ResolverReturned =>
       /\ Flatten(Batches) = childIds
       /\ Len(requests) =
            (Len(childIds) + MORE_CHILDREN_BATCH - 1) \div MORE_CHILDREN_BATCH

\* the resolver has returned after two requests, the second for a batch
\* that is not full
C19_Witness ==
  /\ ResolverReturned
  /\ Len(requests) = 2
  /\ Len(requests[1].batch) = MORE_CHILDREN_BATCH
  /\ Len(requests[2].batch) < MORE_CHILDREN_BATCH

\* the entries extracted from the response of a continuation request
Extracted(req) ==
  IF req.outcome = "ok" /\ req.things.arr THEN req.things.items ELSE <<>>

(***************************************************************************)
(* C20  The n-th continuation request is for the n-th batch of the id      *)
(* list, so no batch is asked for twice; a request that fails changes      *)
(* nothing but the position of the loop, which goes on to the next batch;  *)
(* what the resolver has collected is the concatenation, in the order of   *)
(* the requests, of the entries extracted from the responses, and it is    *)
(* the empty sequence when every request failed.                           *)
(***************************************************************************)
C20_EachBatchOnce ==
  /\ [](/\ \A n \in 1..Len(requests) :
            requests[n].batch =
              Slice(childIds, (n - 1) * MORE_CHILDREN_BATCH,
                    n * MORE_CHILDREN_BATCH)
        /\ i = Len(requests) * MORE_CHILDREN_BATCH
        /\ allThings = Flatten([n \in 1..Len(requests) |->
                                  Extracted(requests[n])])
        /\ (\A n \in 1..Len(requests) : BatchFailed(requests[n])) =>
             allThings = <<>>)
  /\ [][(Len(requests') = Len(requests) + 1
         /\ BatchFailed(requests'[Len(requests')])) =>
          /\ allThings' = allThings
          /\ pc' = pc
          /\ i' = i + MORE_CHILDREN_BATCH]_vars

\* the first request failed, the second was issued and succeeded, and the
\* resolver returned the entries of the second
C20_Witness ==
  /\ ResolverReturned
  /\ Len(requests) = 2
  /\ requests[1].outcome = "notOk"
  /\ requests[2].outcome = "ok"
  /\ allThings # <<>>
  /\ allThings = requests[2].things.items

RECURSIVE DocOrder(_, _)
RECURSIVE DocItems(_, _)
\* the entries of a sequence of siblings and, below each entry from which
\* a node is made, the entries of its replies, in the order of the document
DocItems(items, depth) ==
  IF items = <<>> THEN <<>>
  ELSE <<Head(items)>>
         \o (IF IsKept(Head(items))
             THEN DocOrder(Head(items).replies, depth + 1)
             ELSE <<>>)
         \o DocItems(Tail(items), depth)

\* the entries of a children value down to the depth limit, in the order of
\* the document
DocOrder(children, depth) ==
  IF ~children.arr \/ depth > MAX_COMMENT_DEPTH THEN <<>>
  ELSE DocItems(children.items, depth)

\* the entries of the document that the nested pass visits: those with
\* fewer than MAX_COMMENTS node-making entries before them
VisitedEntries(doc) ==
  LET seen(k) == Len(SelectSeq(SubSeq(doc, 1, k - 1), IsKept))
      upTo == {k \in 0..Len(doc) : \A j \in 1..k : seen(j) < MAX_COMMENTS}
      last == CHOOSE k \in upTo : \A x \in upTo : x <= k
  IN SubSeq(doc, 1, last)

\* a placeholder entry with a non-empty child-id list and a non-empty
\* parent reference
IsStubSource(entry) ==
  /\ ~entry.nul
  /\ entry.kind = "more"
  /\ entry.hasData
  /\ entry.children.arr
  /\ entry.children.items # <<>>
  /\ IsString(entry.parent_id)
  /\ entry.parent_id # <<>>

\* the stub of a placeholder entry
StubOf(entry) == [parentId |-> entry.parent_id, childIds |-> entry.children.items]

\* the stubs of the placeholders the nested pass visits, in the order of
\* the document
VisitedStubs ==
  LET sources == SelectSeq(VisitedEntries(DocOrder(listing, 0)), IsStubSource)
  IN [n \in 1..Len(sources) |-> StubOf(sources[n])]

(***************************************************************************)
(* C21  When the nested pass has returned, the stub list holds exactly one *)
(* stub for each visited placeholder that has a non-empty child-id list    *)
(* and a non-empty parent reference, whatever its depth, in the order of   *)
(* discovery, and none for any other entry; every stub has a non-empty     *)
(* parent reference and a non-empty child-id list; and the step of the     *)
(* nested pass issues no request.                                          *)
(***************************************************************************)
C21_StubsOfVisitedPlaceholders ==
  /\ [](ParsedOk =>
          /\ moreStubs = VisitedStubs
          /\ \A n \in 1..Len(moreStubs) :
               moreStubs[n].parentId # <<>> /\ moreStubs[n].childIds # <<>>)
  /\ [][pc = "ParsingNested" => requests' = requests /\ requests' = <<>>]_vars

\* the nested pass has returned with two stubs, the first found below a
\* comment and the second at the top level after it
C21_Witness ==
  /\ ParsedOk
  /\ Len(moreStubs) = 2
  /\ moreStubs[1].parentId = T1(Id("a"))
  /\ moreStubs[2].parentId = T3(Id("p"))
  /\ Len(heap) >= 1

\* the node-making entries of the listing, in the order of the document
KeptInOrder == SelectSeq(DocOrder(listing, 0), IsKept)

\* node n was made from the entry
MadeFrom(n, entry) ==
  /\ heap[n].body = entry.body
  /\ IF IsString(entry.id) THEN heap[n].id = entry.id ELSE IsRandomId(heap[n].id)

(***************************************************************************)
(* C22  The count of the nested pass never exceeds MAX_COMMENTS and is the *)
(* number of nodes made, so that an entry with a blank body does not       *)
(* increase it; and the nodes made are those of the first MAX_COMMENTS     *)
(* node-making entries of the document: once the count equals              *)
(* MAX_COMMENTS, no later entry at any level makes a node.                 *)
(***************************************************************************)
C22_CountBounded ==
  /\ Nested.st.count <= MAX_COMMENTS
  /\ ParsedOk =>
       LET nodes == PreOrder(comments, heap) IN
       /\ Nested.st.count = Len(nodes)
       /\ Len(nodes) = Min(Len(KeptInOrder), MAX_COMMENTS)
       /\ \A n \in 1..Len(nodes) : MadeFrom(nodes[n], KeptInOrder[n])

\* the count reached MAX_COMMENTS inside the replies of the first top-level
\* comment, and the second top-level entry, from which a node would have
\* been made, was dropped
C22_Witness ==
  /\ ParsedOk
  /\ Len(heap) = MAX_COMMENTS
  /\ Len(comments) = 1
  /\ Len(heap[comments[1]].replies) = MAX_COMMENTS - 1
  /\ Len(listing.items) = 2
  /\ IsKept(listing.items[2])

\* the entry of the flat batch from which buildTreeFromFlat made node n
EntryOf(n) == KeptOf(Arr(allThings))[n - Len(Nested.st.heap)]

\* the parent reference buildTreeFromFlat recorded for node n
ParentRefOf(n) ==
  IF IsString(EntryOf(n).parent_id) THEN EntryOf(n).parent_id ELSE <<>>

\* node n is the value of nodeMap for its id: no later entry repeats its id
InNodeMap(n) == \A x \in BuiltNodes : heap[x].id = heap[n].id => x <= n

\* the places of node n in what buildTreeFromFlat made: positions in the
\* replies of a node of the batch and positions in a group of byParent
PlacesOf(n) ==
  UNION {{<<"reply", x, k>> :
            k \in {j \in 1..Len(heap[x].replies) : heap[x].replies[j] = n}} :
         x \in BuiltNodes}
  \cup
  UNION {{<<"group", byParent[g].parentId, k>> :
            k \in {j \in 1..Len(byParent[g].nodes) : byParent[g].nodes[j] = n}} :
         g \in 1..Len(byParent)}

\* the one place where node n belongs
PlacedWhereItBelongs(n) ==
  LET short == StripTypeTag(ParentRefOf(n))
      inBatch == {x \in BuiltNodes : InNodeMap(x) /\ heap[x].id = short}
  IN /\ Cardinality(PlacesOf(n)) = 1
     /\ \A place \in PlacesOf(n) :
          IF inBatch # {}
          THEN place[1] = "reply" /\ place[2] \in inBatch
          ELSE place[1] = "group" /\ place[2] = ParentRefOf(n)

\* buildTreeFromFlat left the tree of the nested pass as it was
TreeUntouched ==
  /\ comments = Nested.nodes
  /\ \A n \in 1..Len(Nested.st.heap) : heap[n] = Nested.st.heap[n]

(***************************************************************************)
(* C23 (as stated)  Right after buildTreeFromFlat, the node of every       *)
(* surviving entry is in exactly one place: in the replies of the node of  *)
(* the batch whose id is the entry's parent reference without its type     *)
(* tag, when there is such a node, and otherwise in the group of byParent  *)
(* keyed by the entry's parent reference as it came; and the tree of the   *)
(* nested pass is as it was.                                               *)
(***************************************************************************)
C23_EveryNodePlacedOnce ==
  JustBuilt =>
    /\ \A n \in BuiltNodes : PlacedWhereItBelongs(n)
    /\ TreeUntouched

(***************************************************************************)
(* C23 (amended)  Right after buildTreeFromFlat, the node of every         *)
(* surviving entry whose id no later surviving entry repeats is in exactly *)
(* one place: in the replies of the node of the batch whose id is the      *)
(* entry's parent reference without its type tag, when there is such a     *)
(* node, and otherwise in the group of byParent keyed by the entry's       *)
(* parent reference as it came; the node of an entry whose id a later      *)
(* surviving entry repeats is in no place; and the tree of the nested pass *)
(* is as it was.                                                           *)
(***************************************************************************)
C23_LastNodeOfEachIdPlacedOnce ==
  JustBuilt =>
    /\ \A n \in BuiltNodes :
         IF InNodeMap(n) THEN PlacedWhereItBelongs(n) ELSE PlacesOf(n) = {}
    /\ TreeUntouched

\* the batch made three nodes: one a reply of a node of the batch, one in
\* the group of a comment of the nested tree, and one replaced by a later
\* entry with its id; the nested tree has nodes
C23_Witness ==
  /\ JustBuilt
  /\ Nested.nodes # <<>>
  /\ Cardinality(BuiltNodes) = 3
  /\ \E n \in BuiltNodes : ~InNodeMap(n)
  /\ \E n \in BuiltNodes : \E place \in PlacesOf(n) : place[1] = "reply"
  /\ \E n \in BuiltNodes :
       \E place \in PlacesOf(n) : place = <<"group", T1(Id("b")), 1>>

(***************************************************************************)
(* C24  An iteration of the loop over byParent changes at most one node:   *)
(* when nodes of the tree match the parent reference, insertIntoTree       *)
(* returns true, the replies of the first match in depth-first pre-order   *)
(* become its previous replies followed by the sub-forest, and every other *)
(* node and the top-level sequence are as they were; when no node matches, *)
(* insertIntoTree returns false and every node is as it was.               *)
(***************************************************************************)
C24_OnlyFirstMatchChanged ==
  [][SpliceStepTaken =>
       LET n == FirstMatching(comments, heap, NextPair.parentId)
           r == insertIntoTree(comments, NextPair.parentId, NextPair.nodes, heap)
       IN IF n = 0
          THEN ~r.found /\ r.heap = heap /\ heap' = heap
          ELSE /\ r.found
               /\ heap' = [heap EXCEPT ![n].replies = @ \o NextPair.nodes]
               /\ r.heap = heap'
               /\ comments' = comments]_vars

\* two nodes of the tree matched the parent reference of the only
\* sub-forest; the first in pre-order has it at the end of its replies and
\* the second has the replies the nested pass gave it
C24_Witness ==
  /\ pc = "Done" /\ taken = 1 /\ caught = "no"
  /\ comments = Nested.nodes
  /\ LET po == PreOrder(Nested.nodes, Nested.st.heap) IN
     \E x, y \in 1..Len(po) :
       /\ x < y
       /\ T1(heap[po[x]].id) = byParent[1].parentId
       /\ T1(heap[po[y]].id) = byParent[1].parentId
       /\ heap[po[x]].replies
            = Nested.st.heap[po[x]].replies \o byParent[1].nodes
       /\ heap[po[y]].replies = Nested.st.heap[po[y]].replies

(***************************************************************************)
(* The reconstruction with its scheduling                                  *)
(*                                                                         *)
(* Every step of fetchRedditPayload that can be taken is taken: the nested *)
(* pass, the builder and the splicer are synchronous code, and every       *)
(* continuation request comes to one of Outcomes (fetch carries            *)
(* AbortSignal.timeout(12000), so a request that gets no answer rejects).  *)
(***************************************************************************)
LiveSpec == Init /\ [][Next]_vars /\ WF_vars(Next)

(***************************************************************************)
(* C25  Every reconstruction reaches Done, where it returns its tree.      *)
(***************************************************************************)
C25_AlwaysReachesDone == <>(pc = "Done")

(***************************************************************************)
(* C25, the part about the continuation requests: once the nested pass has *)
(* returned, the reconstruction reaches Done; and a request that is        *)
(* rejected, as one that times out is, only moves the loop to the next     *)
(* batch.                                                                  *)
(***************************************************************************)
C25_DoneOnceParsed ==
  /\ AfterNested ~> pc = "Done"
  /\ [][(Len(requests') = Len(requests) + 1
         /\ requests'[Len(requests')].outcome = "rejected") =>
          /\ i' = i + MORE_CHILDREN_BATCH
          /\ pc' = pc
          /\ allThings' = allThings /\ comments' = comments /\ heap' = heap]_vars

(***************************************************************************)
(* C26  An iteration of the loop over byParent changes the replies of a    *)
(* comment node only when the parent reference of the sub-forest is the    *)
(* comment-tagged identifier of that node, and a sub-forest whose parent   *)
(* reference is the post-tagged root reference of the thread is appended   *)
(* to the top level and changes no replies list, also when a comment of    *)
(* the tree has the short id of the thread.                                *)
(***************************************************************************)
C26_AttachmentRespectsKind ==
  [][SpliceStepTaken =>
       /\ \A n \in 1..Len(heap) :
            heap'[n].replies # heap[n].replies =>
              NextPair.parentId = T1(heap[n].id)
       /\ NextPair.parentId = T3(postId) =>
            /\ comments' = comments \o NextPair.nodes
            /\ heap' = heap]_vars

\* an entry of the page's log that settles the request: the timeout, or a
\* result from the page's own window with the requestId of the request
Settles(entry) ==
  \/ entry = TimeoutElapsed
  \/ /\ entry.source = "window"
     /\ entry.data.obj
     /\ entry.data.type = "LIMEN_FETCH_REDDIT_RESULT"
     /\ entry.data.requestId = page.requestId
     /\ entry.data.ok \in {"true", "false"}

\* the positions of the log with an entry that settles the request
SettlingEntries == {n \in 1..Len(page.log) : Settles(page.log[n])}

\* the first of them
FirstSettling ==
  page.log[CHOOSE n \in SettlingEntries : \A m \in SettlingEntries : n <= m]

(***************************************************************************)
(* C27  Whatever the order of the window's message events and the timeout, *)
(* resolve or reject is called at most once; while neither the timeout nor *)
(* a result with the requestId of the request has come, the promise is     *)
(* pending with its listener and its timer in place; afterwards it is what *)
(* the first of them made it (resolved with the payload by a result with   *)
(* ok true, rejected by a result with ok false or by the timeout), the     *)
(* listener is removed and the timer is not armed, so that nothing that    *)
(* comes later changes it.                                                 *)
(***************************************************************************)
C27_SettledOnceByFirstResultOrTimeout ==
  page # NoPage =>
    /\ page.settles <= 1
    /\ IF SettlingEntries = {}
       THEN /\ page.promise = "pending"
            /\ page.settles = 0
            /\ page.listening
            /\ page.timer = "armed"
       ELSE /\ page.settles = 1
            /\ ~page.listening
            /\ IF FirstSettling = TimeoutElapsed
               THEN /\ page.promise = "rejected"
                    /\ page.value = DidNotRespond
                    /\ page.timer = "fired"
               ELSE IF FirstSettling.data.ok = "true"
               THEN /\ page.promise = "resolved"
                    /\ page.value = FirstSettling.data.payload
                    /\ page.timer = "cleared"
               ELSE /\ page.promise = "rejected"
                    /\ page.value # DidNotRespond
                    /\ page.timer = "cleared"

\* a result with another requestId came first and left the promise
\* pending, the result of the request resolved it, and a later result with
\* ok false and the timeout did not change it
C27_Witness ==
  /\ Len(page.log) = 4
  /\ page.log[1].source = "window"
  /\ page.log[1].data.type = "LIMEN_FETCH_REDDIT_RESULT"
  /\ page.log[1].data.requestId = LimenRequestId(2)
  /\ page.log[1].data.ok = "true"
  /\ page.log[2].source = "window"
  /\ page.log[2].data.requestId = page.requestId
  /\ page.log[2].data.ok = "true"
  /\ page.log[3].source = "window"
  /\ page.log[3].data.requestId = page.requestId
  /\ page.log[3].data.ok = "false"
  /\ page.log[4] = TimeoutElapsed
  /\ page.promise = "resolved"
  /\ page.value = "tree"

\* a message event that is a request of the page: it comes from the
\* script's own window, has the request type and a requestId and a url that
\* are non-empty strings
IsPageRequest(event) ==
  /\ event.source = "window"
  /\ event.data.obj
  /\ event.data.type = "LIMEN_FETCH_REDDIT"
  /\ IsString(event.data.requestId) /\ event.data.requestId # <<>>
  /\ IsString(event.data.url) /\ event.data.url # <<>>

\* the requests of the page among the events the script got, in order
PageRequests == SelectSeq(script.log, IsPageRequest)

\* the calls of the callback of the k-th forwarded message
CallsOf(k) == {n \in 1..Len(script.calls) : script.calls[n].of = k}

(***************************************************************************)
(* C28  The messages the content script has forwarded are, in order, one   *)
(* FETCH_REDDIT_POST message with the requestId and the url of each        *)
(* request of the page it got, and nothing for any other event; it has     *)
(* posted one LIMEN_FETCH_REDDIT_RESULT for each forwarded message whose   *)
(* callback was called and none for the others, with the requestId of that *)
(* message, and with ok true only when chrome reported no error and the    *)
(* response carried the same requestId and ok === true.                    *)
(***************************************************************************)
C28_OneForwardOneResult ==
  /\ Len(script.forwarded) = Len(PageRequests)
  /\ \A k \in 1..Len(script.forwarded) :
       /\ script.forwarded[k] =
            [type |-> "FETCH_REDDIT_POST",
             requestId |-> PageRequests[k].data.requestId,
             url |-> PageRequests[k].data.url]
       /\ Cardinality(CallsOf(k)) <= 1
  /\ Len(script.posted) = Len(script.calls)
  /\ \A n \in 1..Len(script.posted) :
       LET request == script.forwarded[script.calls[n].of]
           args == script.calls[n].args
       IN /\ script.posted[n].type = "LIMEN_FETCH_REDDIT_RESULT"
          /\ script.posted[n].requestId = request.requestId
          /\ script.posted[n].ok =
               (/\ ~args.lastError
                /\ args.response.present
                /\ args.response.requestId = request.requestId
                /\ args.response.ok = "true")
          /\ script.posted[n].ok => script.posted[n].payload = args.response.payload

\* the script got a request without a url and a request of the page; it
\* forwarded the second only, and posted its result with ok true
C28_Witness ==
  /\ Len(script.log) = 2
  /\ script.log[1].source = "window"
  /\ script.log[1].data.type = "LIMEN_FETCH_REDDIT"
  /\ script.log[1].data.requestId = LimenRequestId(1)
  /\ script.log[1].data.url = <<>>
  /\ IsPageRequest(script.log[2])
  /\ Len(script.forwarded) = 1
  /\ Len(script.posted) = 1
  /\ script.posted[1].ok
  /\ script.posted[1].requestId = script.log[2].data.requestId

\* the responses given to the sendResponse of the k-th message
ResponsesTo(k) ==
  {n \in 1..Len(worker.responses) : worker.responses[n].to = k}

\* the k-th message is a request
IsFetchRequest(k) ==
  worker.calls[k].message.obj
    /\ worker.calls[k].message.type = "FETCH_REDDIT_POST"

\* a response is the one the outcome calls for: ok true with the payload,
\* or ok false with the message of the error and its status
AnswersOutcome(response, outcome) ==
  IF ~outcome.threw
  THEN response.ok = "true" /\ response.payload = outcome.payload
  ELSE /\ response.ok = "false"
       /\ response.error = outcome.error.message
       /\ response.status =
            CASE outcome.error.name = "ValidationError" -> 400
              [] outcome.error.name = "UpstreamError" -> outcome.error.status
              [] OTHER -> 500

\* every request that is not awaiting fetchRedditPayload has exactly one
\* response, a request that is awaiting it and a message of another type
\* have none, and every response is the one its outcome calls for and
\* carries the requestId that echo gives for its message
OneResponseEach(echo(_)) ==
  \A k \in 1..Len(worker.calls) :
    /\ Cardinality(ResponsesTo(k)) =
         IF IsFetchRequest(k) /\ worker.calls[k].state = "answered"
         THEN 1 ELSE 0
    /\ \A n \in ResponsesTo(k) :
         /\ worker.responses[n].response.requestId = echo(worker.calls[k].message)
         /\ AnswersOutcome(worker.responses[n].response,
                           worker.responses[n].outcome)

\* the requestId of a message as it is
SameRequestId(message) == message.requestId

\* the requestId of a message when it is a string, the empty string
\* otherwise
StringRequestId(message) ==
  IF IsString(message.requestId) THEN message.requestId ELSE <<>>

(***************************************************************************)
(* C29 (as stated)  The background worker gives every FETCH_REDDIT_POST    *)
(* message exactly one response once fetchRedditPayload has settled for    *)
(* it, with the requestId of the message: ok true with the payload on      *)
(* success, otherwise ok false with the message of the error and status    *)
(* 400 for a validation error, the status of an upstream error, 500 for    *)
(* any other error; whatever the order in which the requests complete.     *)
(***************************************************************************)
C29_ResponseEchoesRequestId == OneResponseEach(SameRequestId)

(***************************************************************************)
(* C29 (amended)  The same, the response carrying the requestId of the     *)
(* message when that is a string and the empty string otherwise.           *)
(***************************************************************************)
C29_ResponseEchoesStringRequestId == OneResponseEach(StringRequestId)

\* two requests with different requestIds were awaiting fetchRedditPayload
\* together; the second was answered first, with the payload, and the
\* first after it, with the error of an upstream failure
C29_Witness ==
  /\ Len(worker.calls) = 2
  /\ worker.calls[1].message.requestId = LimenRequestId(1)
  /\ worker.calls[2].message.requestId = LimenRequestId(2)
  /\ Len(worker.responses) = 2
  /\ worker.responses[1].to = 2
  /\ worker.responses[1].response
       = Response(LimenRequestId(2), "true", "tree", "", NotANumber)
  /\ worker.responses[2].to = 1
  /\ worker.responses[2].response.requestId = LimenRequestId(1)
  /\ worker.responses[2].response.status = 403

(***************************************************************************)
(* C30  The URL the listener gives chrome.tabs.update has itself no        *)
(* redirect target, with the base URL of either build, and a tab-update    *)
(* event in which the listener looks at such a URL issues no tab update.   *)
(***************************************************************************)
C30_NoRedirectLoop ==
  /\ \A target \in RedirectTargets :
       /\ getRedirectTarget(target) = NoUrl
       /\ getRedirectTarget([target EXCEPT !.protocol = "http:",
                                           !.hostname = "localhost"]) = NoUrl
  /\ tab.url \in RedirectTargets => ~tab.updated

\* the listener has looked at the URL of Limen for a Reddit post and has
\* issued no tab update
C30_Witness ==
  /\ tab.url \in RedirectTargets
  /\ tab.url.hostname = "limen.sh"
  /\ getRedditPostId(tab.url.url) = <<"a", "b", "c">>
  /\ ~tab.updated
====
